---- MODULE Spec2Model ----
(***************************************************************************)
(* Model of the lyric-karaoke session engine: the zustand game store       *)
(* (stores/gameStore), the engine hook (hooks/useGameEngine), the audio    *)
(* clock it reads (hooks/useAudioSync), the timeline lookup                *)
(* (utils/lrcParser) and the scorer (utils/scoring).                       *)
(*                                                                         *)
(* Strings are sequences of one-character strings.  Times are integer      *)
(* milliseconds.  A character accuracy is the exact fraction num/den; a    *)
(* timing multiplier is held in hundredths.  currentLineIndex is 0-based   *)
(* as in the source (-1: no active line).                                  *)
(*                                                                         *)
(* One action is one event of the single-threaded event loop: the handler  *)
(* runs, the component re-renders from the store, and the effects of       *)
(* useGameEngine run in source order with the values captured by that      *)
(* render, again until a render changes nothing.                           *)
(***************************************************************************)
EXTENDS Integers, Sequences, FiniteSets, TLC

VARIABLES
    lyrics,                     \* gameStore.lyrics.lines (parsed timeline)
    difficulty,                 \* gameStore.difficulty
    typingMode,                 \* gameStore.typingMode
    status,                     \* gameStore.status
    currentLineIndex,           \* gameStore.currentLineIndex
    typedText,                  \* gameStore.typedText
    score,                      \* gameStore.score
    combo,                      \* gameStore.combo
    maxCombo,                   \* gameStore.maxCombo
    isLineCompleted,            \* gameStore.isLineCompleted
    lineResults,                \* gameStore.lineResults
    lyricsOffset,               \* gameStore.lyricsOffset
    showAutoSubmitNotification, \* gameStore.showAutoSubmitNotification
    currentTime,                \* useAudioSync: currentTime (React state)
    duration,                   \* useAudioSync: duration (React state)
    howlTime,                   \* howl.seek() * 1000, the live audio position
    audioPlaying,               \* howl.playing()
    lastTypedTextRef,           \* useGameEngine: lastTypedTextRef.current
    count,                      \* startPlaying: count of the running interval, 0 when none
    view,                       \* App: view ("search", "setup" or "game")
    fault,                      \* an effect threw and React unmounted the tree
    last,                       \* history: the last event, its argument, the score it stored
    expectedIn,                 \* assist alignment study: expected line text
    typedIn,                    \* assist alignment study: text typed by the user
    alignedOut,                 \* assist alignment study: result, <<"none">> before the call
    call,                       \* direct call of a function: its name and arguments
    returned,                   \* direct call: <<value returned>>, << >> before the call
    highScores,                 \* localStorage['lyric-karaoke-highscores'] and the records written
    ytdlp,                      \* YtdlpService: locks, progress, cache, downloads and callers
    lyricsHook                  \* useLyrics: state, refs and the requests of searchSongs

sessionVars == <<lyrics, difficulty, typingMode, status, currentLineIndex, typedText,
                 score, combo, maxCombo, isLineCompleted, lineResults, lyricsOffset,
                 showAutoSubmitNotification, currentTime, duration, howlTime,
                 audioPlaying, lastTypedTextRef, count, view, fault, last>>

studyVars == <<expectedIn, typedIn, alignedOut, call, returned,
               highScores, ytdlp, lyricsHook>>

vars == <<lyrics, difficulty, typingMode, status, currentLineIndex, typedText,
          score, combo, maxCombo, isLineCompleted, lineResults, lyricsOffset,
          showAutoSubmitNotification, currentTime, duration, howlTime,
          audioPlaying, lastTypedTextRef, count, view, fault, last,
          expectedIn, typedIn, alignedOut, call, returned,
          highScores, ytdlp, lyricsHook>>

----------------------------------------------------------------------------
(* Bounds of the model *)

\* longest text the input element may hold
MaxLen == 1

\* audio position advance between two observable instants, in ms
TimeStep == 2000

\* longest expected text of the assist alignment study
MaxExpected == 3

\* keys of the keyboard that produce a character
Keys == {"a"}

\* largest number of judgments followed in one session
MaxResults == 3

\* largest number of audio advances the React state may lag behind
MaxLag == 3

\* largest number of audio advances the React state may lag behind when a
\* key or a click is delivered: both reach a visible page only, where the
\* frame loop copies the audio position at every frame
MaxEventLag == 1

\* score of a stored record that no session of the model reaches
BetterScore == 99999

\* offsets the in-game slider is moved to
Offsets == {0, 2000}

\* difficulties the sessions are played on
SessionDifficulties == {"medium"}

\* durations reported by the loaded audio
AudioDurations == {10000}

\* largest magnitude of an offset handed to the store's setLyricsOffset
MaxRequest == 2100

\* distance between two such offsets away from the ends of the range
RequestStep == 25

\* start time of the line of a directly called judgment, in ms
ScoreTarget == 10000

\* largest distance of the judged time from the start of the line, in ms
MaxDiff == 2000

\* grid of the judged times of the scored calls, in ms
DiffStep == 50

\* largest combo a directly called judgment starts from
MaxComboIn == 201

\* length of the long expected text of the scored calls
LongLen == 20

\* longest text the accuracy is directly called with
MaxText == 3

\* largest number of timed lines of a directly parsed file, and of distinct
\* timestamps (whole seconds) they carry
MaxLines == 3

\* largest time a timeline is asked for its line at, in ms
MaxQuery == 8500

\* grid of these times, in ms
QueryStep == 500

----------------------------------------------------------------------------
(* Text helpers: String.prototype methods used by the source *)

Min(a, b) == IF a < b THEN a ELSE b

Max(a, b) == IF a > b THEN a ELSE b

Abs(x) == IF x < 0 THEN -x ELSE x

\* En dash, em dash and horizontal ellipsis, written in ASCII
EnDash == "~"

EmDash == "="

Ellipsis == "_"

LowerChar(c) == IF c = "A" THEN "a" ELSE IF c = "B" THEN "b" ELSE c

toLowerCase(text) == [i \in 1..Len(text) |-> LowerChar(text[i])]

RECURSIVE trimStart(_)
trimStart(text) ==
    IF Len(text) > 0 /\ Head(text) = " " THEN trimStart(Tail(text)) ELSE text

RECURSIVE trimEnd(_)
trimEnd(text) ==
    IF Len(text) > 0 /\ text[Len(text)] = " "
    THEN trimEnd(SubSeq(text, 1, Len(text) - 1))
    ELSE text

trim(text) == trimEnd(trimStart(text))

----------------------------------------------------------------------------
(* utils/scoring *)

\* the character class of removePunctuation, and the bracket pass after it
RemovedChars == {".", ",", "!", "?", ";", ":", "'", "\"", "(", ")", "-", "{", "}", "[", "]"}

removePunctuation(text) == SelectSeq(text, LAMBDA c : c \notin RemovedChars)

RECURSIVE lev(_, _, _, _)
lev(a, b, i, j) ==
    IF i = 0 THEN j
    ELSE IF j = 0 THEN i
    ELSE IF a[i] = b[j] THEN lev(a, b, i - 1, j - 1)
    ELSE Min(lev(a, b, i - 1, j - 1) + 1,
             Min(lev(a, b, i, j - 1) + 1, lev(a, b, i - 1, j) + 1))

levenshteinDistance(a, b) == lev(a, b, Len(a), Len(b))

One == [num |-> 1, den |-> 1]

Zero == [num |-> 0, den |-> 1]

\* accuracyOfNormalized without the early return for equal texts
accuracyOfNormalized_dividing(normalizedTyped, normalizedExpected, maxLength) ==
    [num |-> Max(0, maxLength
                    - levenshteinDistance(normalizedTyped, normalizedExpected)),
     den |-> maxLength]

\* the tail of calculateCharacterAccuracy, once both texts are normalized
accuracyOfNormalized(normalizedTyped, normalizedExpected, maxLength) ==
    IF normalizedTyped = normalizedExpected THEN One
    ELSE [num |-> Max(0, maxLength
                         - levenshteinDistance(normalizedTyped, normalizedExpected)),
          den |-> maxLength]

\* calculateCharacterAccuracy without the two tests for empty texts
calculateCharacterAccuracy_unguarded(typed, expected) ==
    accuracyOfNormalized(
        removePunctuation(trim(toLowerCase(typed))),
        removePunctuation(trim(toLowerCase(expected))),
        Max(Len(removePunctuation(trim(toLowerCase(typed)))),
            Len(removePunctuation(trim(toLowerCase(expected))))))

calculateCharacterAccuracy(typed, expected) ==
    IF Len(expected) = 0 THEN (IF Len(typed) > 0 THEN Zero ELSE One)
    ELSE IF Len(typed) = 0 THEN Zero
    ELSE accuracyOfNormalized(
             removePunctuation(trim(toLowerCase(typed))),
             removePunctuation(trim(toLowerCase(expected))),
             Max(Len(removePunctuation(trim(toLowerCase(typed)))),
                 Len(removePunctuation(trim(toLowerCase(expected))))))

\* penalties in hundredths, baseScoreMultiplier in tenths,
\* comboMultiplier - 1 in hundredths
DIFFICULTY_SETTINGS ==
    [easy   |-> [perfectWindow |-> 500, goodWindow |-> 1500,
                 earlyPenalty |-> 90, latePenalty |-> 85,
                 tooEarlyPenalty |-> 70, tooLatePenalty |-> 60,
                 baseScoreMultiplier |-> 8, comboMultiplier |-> 5],
     medium |-> [perfectWindow |-> 300, goodWindow |-> 800,
                 earlyPenalty |-> 80, latePenalty |-> 75,
                 tooEarlyPenalty |-> 50, tooLatePenalty |-> 40,
                 baseScoreMultiplier |-> 10, comboMultiplier |-> 10],
     hard   |-> [perfectWindow |-> 150, goodWindow |-> 400,
                 earlyPenalty |-> 60, latePenalty |-> 50,
                 tooEarlyPenalty |-> 20, tooLatePenalty |-> 10,
                 baseScoreMultiplier |-> 15, comboMultiplier |-> 20]]

Difficulties == {"easy", "medium", "hard"}

\* calculateTimingResult with the ends of the good window left outside
calculateTimingResult_openGoodWindow(typedTimeMs, expectedTimeMs, settings) ==
    LET diff == typedTimeMs - expectedTimeMs
    IN IF Abs(diff) <= settings.perfectWindow THEN "perfect"
       ELSE IF diff <= -settings.goodWindow THEN "too_early"
       ELSE IF diff < 0 THEN "early"
       ELSE IF diff >= settings.goodWindow THEN "too_late"
       ELSE "late"

calculateTimingResult(typedTimeMs, expectedTimeMs, settings) ==
    LET diff == typedTimeMs - expectedTimeMs
    IN IF Abs(diff) <= settings.perfectWindow THEN "perfect"
       ELSE IF diff < -settings.goodWindow THEN "too_early"
       ELSE IF diff < 0 THEN "early"
       ELSE IF diff > settings.goodWindow THEN "too_late"
       ELSE "late"

getTimingMultiplier(timingResult, settings) ==
    CASE timingResult = "perfect" -> 100
      [] timingResult = "early" -> settings.earlyPenalty
      [] timingResult = "late" -> settings.latePenalty
      [] timingResult = "too_early" -> settings.tooEarlyPenalty
      [] timingResult = "too_late" -> settings.tooLatePenalty

\* Math.round(n / d) for n >= 0, d > 0
RoundDiv(n, d) == (2 * n + d) \div (2 * d)

\* lineScoreOf with a combo that looks at the accuracy only
lineScoreOf_comboOnAccuracy(typed, expected, characterAccuracy, timingResult, settings, comboBefore) ==
    [lineIndex |-> 0,
     typedText |-> typed,
     expectedText |-> expected,
     characterAccuracy |-> characterAccuracy,
     timingResult |-> timingResult,
     timingScore |-> getTimingMultiplier(timingResult, settings),
     score |-> 0,
     combo |-> IF 100 * characterAccuracy.num >= 95 * characterAccuracy.den
               THEN comboBefore + 1 ELSE 0]

\* lineScoreOf with a combo bonus that is not capped at 2
lineScoreOf_uncappedBonus(typed, expected, characterAccuracy, timingResult, settings, comboBefore) ==
    [lineIndex |-> 0,
     typedText |-> typed,
     expectedText |-> expected,
     characterAccuracy |-> characterAccuracy,
     timingResult |-> timingResult,
     timingScore |-> getTimingMultiplier(timingResult, settings),
     score |-> RoundDiv((6000 * characterAccuracy.num
                         + 30 * getTimingMultiplier(timingResult, settings)
                              * characterAccuracy.den
                         + (1000 + comboBefore * settings.comboMultiplier)
                              * characterAccuracy.den)
                        * settings.baseScoreMultiplier,
                        100 * characterAccuracy.den),
     combo |-> IF 100 * characterAccuracy.num >= 95 * characterAccuracy.den
                  /\ timingResult = "perfect"
               THEN comboBefore + 1 ELSE 0]

\* the result record of calculateLineScore, from the accuracy and the timing
\* it computed first
lineScoreOf(typed, expected, characterAccuracy, timingResult, settings, comboBefore) ==
    LET timingScore == getTimingMultiplier(timingResult, settings)
        isPerfect == 100 * characterAccuracy.num >= 95 * characterAccuracy.den
                     /\ timingResult = "perfect"
        newCombo == IF isPerfect THEN comboBefore + 1 ELSE 0
        \* comboBonus in thousandths
        comboBonus == 1000 + comboBefore * settings.comboMultiplier
        \* (accuracy * 0.6 + timing * 0.3 + min(bonus, 2) * 0.1) * 10000 * den
        weighted == 6000 * characterAccuracy.num
                    + 30 * timingScore * characterAccuracy.den
                    + Min(comboBonus, 2000) * characterAccuracy.den
    IN [lineIndex |-> 0,
        typedText |-> typed,
        expectedText |-> expected,
        characterAccuracy |-> characterAccuracy,
        timingResult |-> timingResult,
        timingScore |-> timingScore,
        score |-> RoundDiv(weighted * settings.baseScoreMultiplier,
                           100 * characterAccuracy.den),
        combo |-> newCombo]

calculateLineScore(typed, expected, typedTimeMs, expectedTimeMs, lineEndTimeMs, comboBefore, diffName) ==
    lineScoreOf(typed, expected,
                calculateCharacterAccuracy(typed, expected),
                calculateTimingResult(typedTimeMs, expectedTimeMs,
                                      DIFFICULTY_SETTINGS[diffName]),
                DIFFICULTY_SETTINGS[diffName], comboBefore)

----------------------------------------------------------------------------
(* utils/lrcParser *)

\* insertion of one entry behind every entry whose time is not larger:
\* Array.prototype.sort is stable
RECURSIVE InsertByTime(_, _)
InsertByTime(sorted, e) ==
    IF Len(sorted) = 0 THEN <<e>>
    ELSE IF sorted[Len(sorted)].time <= e.time THEN Append(sorted, e)
    ELSE Append(InsertByTime(SubSeq(sorted, 1, Len(sorted) - 1), e), sorted[Len(sorted)])

RECURSIVE SortByTime(_)
SortByTime(entries) ==
    IF Len(entries) = 0 THEN <<>>
    ELSE InsertByTime(SortByTime(SubSeq(entries, 1, Len(entries) - 1)),
                      entries[Len(entries)])

\* parseLRC without the sort
parseLRC_unsorted(entries) ==
    [i \in 1..Len(entries) |->
        [time |-> entries[i].time,
         text |-> entries[i].text,
         endTime |-> IF i < Len(entries) THEN entries[i + 1].time
                     ELSE entries[i].time + 5000]]

\* parseLRC from the point where every timestamp of every text line has been
\* pushed: entries are the pushed {time, text} pairs in file order
parseLRC(entries) ==
    LET sorted == SortByTime(entries)
    IN [i \in 1..Len(sorted) |->
          [time |-> sorted[i].time,
           text |-> sorted[i].text,
           endTime |-> IF i < Len(sorted) THEN sorted[i + 1].time
                       ELSE sorted[i].time + 5000]]

RECURSIVE lastStarted(_, _, _)
lastStarted(lines, currentTimeMs, i) ==
    IF i < 0 THEN -1
    ELSE IF currentTimeMs >= lines[i + 1].time THEN i
    ELSE lastStarted(lines, currentTimeMs, i - 1)

\* getCurrentLineIndex taking a line only after its start
getCurrentLineIndex_afterStart(lines, currentTimeMs) ==
    lastStarted(lines, currentTimeMs - 1, Len(lines) - 1)

\* getCurrentLineIndex with no line once the last one has ended
getCurrentLineIndex_untilEnd(lines, currentTimeMs) ==
    IF Len(lines) > 0 /\ currentTimeMs >= lines[Len(lines)].endTime THEN -1
    ELSE lastStarted(lines, currentTimeMs, Len(lines) - 1)

getCurrentLineIndex(lines, currentTimeMs) ==
    lastStarted(lines, currentTimeMs, Len(lines) - 1)

\* entries of the LRC files the sessions are played on
LrcPlain == << [time |-> 2000, text |-> <<"A", ",">>],
               [time |-> 4000, text |-> <<"a", "b">>] >>

LrcRepeated == << [time |-> 3000, text |-> <<"b">>],
                  [time |-> 2000, text |-> <<"a">>],
                  [time |-> 2000, text |-> <<"a">>] >>

\* an LRC file without a timed line
LrcEmpty == << >>

\* one timed line
LrcSingle == << [time |-> 1000, text |-> <<"a">>] >>

Timelines == {parseLRC(LrcPlain), parseLRC(LrcRepeated), parseLRC(LrcEmpty), parseLRC(LrcSingle)}

----------------------------------------------------------------------------
(* utils/storage: the high scores kept in localStorage.  A storage st is   *)
(* what localStorage answers during one event: whether getItem and setItem *)
(* succeed, and the stored records, each with the key songId-difficulty of *)
(* its group and its score.                                                *)

MAX_SCORES_PER_SONG == 5

\* the group of the song and difficulty being played, and another group
ThisSong == "this"

OtherSong == "other"

RECURSIVE InsertByScore(_, _)
InsertByScore(sorted, e) ==
    IF sorted = <<>> THEN <<e>>
    ELSE IF e.score > Head(sorted).score THEN <<e>> \o sorted
    ELSE <<Head(sorted)>> \o InsertByScore(Tail(sorted), e)

\* scores.sort((a, b) => b.score - a.score), a stable sort
RECURSIVE SortByScore(_)
SortByScore(scores) ==
    IF scores = <<>> THEN <<>>
    ELSE InsertByScore(SortByScore(SubSeq(scores, 1, Len(scores) - 1)),
                       scores[Len(scores)])

\* getAllHighScores: a failing getItem or JSON.parse is caught and gives []
getAllHighScores(st) == IF st.readable THEN st.stored ELSE <<>>

getHighScoresForSong(st, songKey) ==
    LET mine == SortByScore(SelectSeq(getAllHighScores(st),
                                      LAMBDA h : h.songKey = songKey))
    IN SubSeq(mine, 1, Min(Len(mine), MAX_SCORES_PER_SONG))

\* isHighScore accepting a total equal to the fifth record
isHighScore_orEqual(st, songKey, totalScore) ==
    LET existingScores == getHighScoresForSong(st, songKey)
    IN IF Len(existingScores) < MAX_SCORES_PER_SONG THEN TRUE
       ELSE totalScore >= existingScores[Len(existingScores)].score

isHighScore(st, songKey, totalScore) ==
    LET existingScores == getHighScoresForSong(st, songKey)
    IN IF Len(existingScores) < MAX_SCORES_PER_SONG THEN TRUE
       ELSE totalScore > existingScores[Len(existingScores)].score

\* the record of what one event did to the store: nothing, a total that was
\* no high score, a write that failed and was caught, or a written record
NotStored == [outcome |-> "none", totalScore |-> 0]

\* saveHighScore with the exception of setItem escaping
saveHighScore_uncaught(st, songKey, totalScore) ==
    IF st.writable THEN [outcome |-> "written", totalScore |-> totalScore]
    ELSE [outcome |-> "thrown", totalScore |-> totalScore]

\* saveHighScore: the record is added, each group keeps its best five, the
\* list is written; a failing setItem is caught
saveHighScore(st, songKey, totalScore) ==
    IF st.writable THEN [outcome |-> "written", totalScore |-> totalScore]
    ELSE [outcome |-> "writeFailed", totalScore |-> totalScore]

\* the grouping of saveHighScore: a Map keeps its keys in the order of their
\* first record; each group is sorted, best first, and cut to five
RECURSIVE bestOfGroups(_)
bestOfGroups(allScores) ==
    IF allScores = <<>> THEN <<>>
    ELSE LET key == Head(allScores).songKey
             group == SortByScore(SelectSeq(allScores, LAMBDA h : h.songKey = key))
         IN SubSeq(group, 1, Min(Len(group), MAX_SCORES_PER_SONG))
            \o bestOfGroups(SelectSeq(allScores, LAMBDA h : h.songKey # key))

\* saveHighScore: finalScores, the list handed to setItem
finalScores(st, songKey, totalScore) ==
    bestOfGroups(Append(getAllHighScores(st),
                        [songKey |-> songKey, score |-> totalScore]))

\* calculateGameStats: totalScore
totalScoreOf(results) ==
    LET sum[k \in 0..Len(results)] ==
            IF k = 0 THEN 0 ELSE sum[k - 1] + results[k].score
    IN sum[Len(results)]

\* calculateGameStats: the three line counts, each a filter(...).length
calculateGameStats(results) ==
    LET accurate(r) == 100 * r.characterAccuracy.num >= 95 * r.characterAccuracy.den
    IN [totalScore |-> totalScoreOf(results),
        perfectLines |-> Len(SelectSeq(results,
            LAMBDA r : r.timingResult = "perfect" /\ accurate(r))),
        goodLines |-> Len(SelectSeq(results,
            LAMBDA r : \/ (r.score > 500 /\ r.timingResult # "perfect")
                       \/ (r.timingResult = "perfect" /\ ~accurate(r)))),
        missedLines |-> Len(SelectSeq(results, LAMBDA r : r.score <= 500))]

----------------------------------------------------------------------------
(* stores/gameStore: the store and the audio hook as one record *)

World ==
    [status |-> status,
     currentLineIndex |-> currentLineIndex,
     typedText |-> typedText,
     score |-> score,
     combo |-> combo,
     maxCombo |-> maxCombo,
     isLineCompleted |-> isLineCompleted,
     lineResults |-> lineResults,
     lyricsOffset |-> lyricsOffset,
     showAutoSubmitNotification |-> showAutoSubmitNotification,
     currentTime |-> currentTime,
     duration |-> duration,
     howlTime |-> howlTime,
     audioPlaying |-> audioPlaying,
     lastTypedTextRef |-> lastTypedTextRef,
     count |-> count,
     fault |-> fault,
     saved |-> NotStored]

\* setLyricsOffset storing the offset as it comes
setLyricsOffset_unclamped(w, offset) ==
    [w EXCEPT !.lyricsOffset = offset]

setLyricsOffset(w, offset) ==
    [w EXCEPT !.lyricsOffset = Max(-2000, Min(2000, offset))]

setShowAutoSubmitNotification(w, show) ==
    [w EXCEPT !.showAutoSubmitNotification = show]

storePause(w) ==
    IF w.status = "playing" THEN [w EXCEPT !.status = "paused"] ELSE w

storeResume(w) ==
    IF w.status = "paused" THEN [w EXCEPT !.status = "playing"] ELSE w

\* setCurrentLineIndex leaving the lock of the previous line in place
setCurrentLineIndex_keepingLock(w, index) ==
    [w EXCEPT !.currentLineIndex = index,
              !.typedText = <<>>]

setCurrentLineIndex(w, index) ==
    [w EXCEPT !.currentLineIndex = index,
              !.isLineCompleted = FALSE,
              !.typedText = <<>>]

setIsLineCompleted(w, completed) ==
    [w EXCEPT !.isLineCompleted = completed]

setTypedText(w, text) ==
    [w EXCEPT !.typedText = text]

\* submitLine that leaves maxCombo alone
submitLine_keepingMaxCombo(w, result) ==
    [w EXCEPT !.lineResults = Append(@, result),
              !.score = @ + result.score,
              !.combo = result.combo,
              !.typedText = <<>>]

submitLine(w, result) ==
    [w EXCEPT !.lineResults = Append(@, result),
              !.score = @ + result.score,
              !.combo = result.combo,
              !.maxCombo = Max(@, result.combo),
              !.typedText = <<>>]

finishGame(w) ==
    [w EXCEPT !.status = "finished"]

\* lineResults.some(r => r.lineIndex === index)
alreadySubmitted(results, index) ==
    \E k \in 1..Len(results) : results[k].lineIndex = index

\* lyrics.lines[index], index 0-based
Line(index) == lyrics[index + 1]

\* the judgment a handler builds for line index: the scorer's result with
\* lineIndex filled in
Judge(typed, index, timeMs, comboBefore) ==
    [calculateLineScore(typed, Line(index).text, timeMs, Line(index).time,
                        Line(index).endTime, comboBefore, difficulty)
        EXCEPT !.lineIndex = index]

----------------------------------------------------------------------------
(* hooks/useGameEngine: effects.  r holds the values captured by the       *)
(* render the effect belongs to, w the store the effect writes to.         *)

\* LineTrackingEffect judging with the offset-adjusted time
LineTrackingEffect_adjustedTime(r, w) ==
    IF r.status # "playing" THEN w
    ELSE LET adjustedTime == r.currentTime + r.lyricsOffset
             newIndex == getCurrentLineIndex(lyrics, adjustedTime)
         IN IF newIndex # r.currentLineIndex /\ newIndex >= 0
            THEN LET w1 == IF r.currentLineIndex >= 0
                              /\ r.currentLineIndex < Len(lyrics)
                              /\ ~alreadySubmitted(r.lineResults, r.currentLineIndex)
                           THEN setShowAutoSubmitNotification(
                                    submitLine(w, Judge(r.typedText, r.currentLineIndex,
                                                        adjustedTime, r.combo)),
                                    TRUE)
                           ELSE w
                 IN setCurrentLineIndex(w1, newIndex)
            ELSE w

\* "Track current lyric line based on audio time (with offset)"
LineTrackingEffect(r, w) ==
    IF r.status # "playing" THEN w
    ELSE LET adjustedTime == r.currentTime + r.lyricsOffset
             newIndex == getCurrentLineIndex(lyrics, adjustedTime)
         IN IF newIndex # r.currentLineIndex /\ newIndex >= 0
            THEN LET w1 == IF r.currentLineIndex >= 0
                              /\ r.currentLineIndex < Len(lyrics)
                              /\ ~alreadySubmitted(r.lineResults, r.currentLineIndex)
                           THEN setShowAutoSubmitNotification(
                                    submitLine(w, Judge(r.typedText, r.currentLineIndex,
                                                        r.currentTime, r.combo)),
                                    TRUE)
                           ELSE w
                 IN setCurrentLineIndex(w1, newIndex)
            ELSE w

\* "Reset strict-mode guard when the line changes or typed text is cleared":
\* both effects run only when their dependency differs from the render before
ResetGuardEffects(r0, r, w) ==
    IF (r.typedText # r0.typedText /\ Len(r.typedText) = 0)
       \/ r.currentLineIndex # r0.currentLineIndex
    THEN [w EXCEPT !.lastTypedTextRef = <<>>]
    ELSE w

\* an exception escapes an effect: React unmounts the tree, the cleanups
\* unload the audio and clear the countdown interval, the store stays as it is
Thrown(w) ==
    [w EXCEPT !.fault = TRUE, !.audioPlaying = FALSE, !.count = 0]

\* the high-score part of the game-end effect, on the judgments it was given
SaveIfHighScore(w, st, resultsForStats) ==
    LET totalScore == totalScoreOf(resultsForStats)
    IN IF isHighScore(st, ThisSong, totalScore)
       THEN [w EXCEPT !.saved = saveHighScore(st, ThisSong, totalScore)]
       ELSE [w EXCEPT !.saved = [outcome |-> "notHigh", totalScore |-> totalScore]]

\* GameEndEffect finishing without the judgment of the last line
GameEndEffect_noLastJudgment(r, w, st) ==
    IF r.status # "playing" \/ r.duration = 0 THEN w
    ELSE IF Len(lyrics) = 0 THEN Thrown(w)
    ELSE IF r.currentTime >= Line(Len(lyrics) - 1).endTime
         THEN finishGame([SaveIfHighScore(w, st, r.lineResults)
                             EXCEPT !.audioPlaying = FALSE])
         ELSE w

\* "Check for game end"; with no line, lastLine is undefined and reading
\* lastLine.endTime throws
GameEndEffect(r, w, st) ==
    IF r.status # "playing" \/ r.duration = 0 THEN w
    ELSE IF Len(lyrics) = 0 THEN Thrown(w)
    ELSE LET lastLineIndex == Len(lyrics) - 1
             lastLine == Line(lastLineIndex)
         IN IF r.currentTime >= lastLine.endTime
            THEN LET submits == ~alreadySubmitted(r.lineResults, lastLineIndex)
                                /\ r.currentLineIndex = lastLineIndex
                     finalResult == Judge(r.typedText, lastLineIndex,
                                          r.currentTime, r.combo)
                     w1 == IF submits THEN submitLine(w, finalResult) ELSE w
                     resultsForStats == IF submits
                                        THEN Append(r.lineResults, finalResult)
                                        ELSE r.lineResults
                     w2 == SaveIfHighScore(w1, st, resultsForStats)
                 IN IF w2.saved.outcome = "thrown" THEN Thrown(w2)
                    ELSE finishGame([w2 EXCEPT !.audioPlaying = FALSE])
            ELSE w

\* the effects of one render, in source order
RunEffects(r0, r, w, st) ==
    GameEndEffect(r, ResetGuardEffects(r0, r, LineTrackingEffect(r, w)), st)

\* renders and effect passes until a render changes nothing or the tree is
\* gone; r0 is the render before the event, w the store the event handler left
RECURSIVE Settle(_, _, _, _)
Settle(r0, w, fuel, st) ==
    IF fuel = 0 \/ w = r0 \/ w.fault THEN w
    ELSE LET w1 == RunEffects(r0, w, w, st)
         IN IF w1 = w THEN w ELSE Settle(w, w1, fuel - 1, st)

----------------------------------------------------------------------------
(* hooks/useGameEngine: handlers.  w is the rendered store the callback    *)
(* closed over, which is also the store it writes to.                      *)

\* the character class of the assist-mode regular expression
AssistPunctuation == RemovedChars \cup {EnDash, EmDash, Ellipsis}

\* alignLoop without the second loop: trailing punctuation is not appended
RECURSIVE alignLoop_noTrailing(_, _, _, _, _)
alignLoop_noTrailing(processedText, expectedText, typedIdx, expectedIdx, alignedText) ==
    IF typedIdx < Len(processedText) /\ expectedIdx < Len(expectedText)
    THEN LET typedChar == processedText[typedIdx + 1]
             expectedChar == expectedText[expectedIdx + 1]
         IN IF expectedChar \in AssistPunctuation /\ typedChar # expectedChar
            THEN alignLoop_noTrailing(processedText, expectedText, typedIdx,
                                      expectedIdx + 1, Append(alignedText, expectedChar))
            ELSE alignLoop_noTrailing(processedText, expectedText, typedIdx + 1,
                                      expectedIdx + 1, Append(alignedText, typedChar))
    ELSE alignedText

\* alignLoop copying the typed character where the expected punctuation was
\* not typed
RECURSIVE alignLoop_typedAtPunctuation(_, _, _, _, _)
alignLoop_typedAtPunctuation(processedText, expectedText, typedIdx, expectedIdx, alignedText) ==
    IF typedIdx < Len(processedText) /\ expectedIdx < Len(expectedText)
    THEN alignLoop_typedAtPunctuation(processedText, expectedText, typedIdx + 1,
                                      expectedIdx + 1,
                                      Append(alignedText, processedText[typedIdx + 1]))
    ELSE IF expectedIdx < Len(expectedText)
            /\ expectedText[expectedIdx + 1] \in AssistPunctuation
    THEN alignLoop_typedAtPunctuation(processedText, expectedText, typedIdx,
                                      expectedIdx + 1,
                                      Append(alignedText, expectedText[expectedIdx + 1]))
    ELSE alignedText

\* the two loops of the assist branch
RECURSIVE alignLoop(_, _, _, _, _)
alignLoop(processedText, expectedText, typedIdx, expectedIdx, alignedText) ==
    IF typedIdx < Len(processedText) /\ expectedIdx < Len(expectedText)
    THEN LET typedChar == processedText[typedIdx + 1]
             expectedChar == expectedText[expectedIdx + 1]
         IN IF expectedChar \in AssistPunctuation /\ typedChar # expectedChar
            THEN alignLoop(processedText, expectedText, typedIdx, expectedIdx + 1,
                           Append(alignedText, expectedChar))
            ELSE alignLoop(processedText, expectedText, typedIdx + 1, expectedIdx + 1,
                           Append(alignedText, typedChar))
    ELSE IF expectedIdx < Len(expectedText)
            /\ expectedText[expectedIdx + 1] \in AssistPunctuation
    THEN alignLoop(processedText, expectedText, typedIdx, expectedIdx + 1,
                   Append(alignedText, expectedText[expectedIdx + 1]))
    ELSE alignedText

assistAlign(processedText, expectedText) ==
    IF Len(processedText) > 0
    THEN alignLoop(processedText, expectedText, 0, 0, <<>>)
    ELSE processedText

\* strictGuard letting a deletion through
strictGuard_accepting(text, lastTyped) == text

\* strict mode: a shorter text restores the previous one
strictGuard(text, lastTyped) ==
    IF Len(text) < Len(lastTyped) THEN lastTyped ELSE text

\* the early-completion test
isPerfectMatch(processedText, expectedText) ==
    LET normalizedTyped == toLowerCase(removePunctuation(processedText))
        normalizedTarget == toLowerCase(removePunctuation(expectedText))
    IN normalizedTyped = normalizedTarget /\ Len(normalizedTyped) > 0

\* handleTyping judging with the throttled React time instead of the live one
handleTyping_staleTime(w, text) ==
    IF w.status # "playing" \/ w.currentLineIndex < 0 \/ w.currentLineIndex >= Len(lyrics)
    THEN w
    ELSE IF w.isLineCompleted THEN w
    ELSE LET currentLine == Line(w.currentLineIndex)
             afterStrict == IF typingMode = "strict"
                            THEN strictGuard(text, w.lastTypedTextRef)
                            ELSE text
             processedText == IF typingMode = "assist"
                              THEN assistAlign(afterStrict, currentLine.text)
                              ELSE afterStrict
             w1 == setTypedText([w EXCEPT !.lastTypedTextRef = processedText],
                                processedText)
         IN IF isPerfectMatch(processedText, currentLine.text)
            THEN submitLine(setIsLineCompleted(w1, TRUE),
                            Judge(processedText, w.currentLineIndex, w.currentTime, w.combo))
            ELSE w1

handleTyping(w, text) ==
    IF w.status # "playing" \/ w.currentLineIndex < 0 \/ w.currentLineIndex >= Len(lyrics)
    THEN w
    ELSE IF w.isLineCompleted THEN w
    ELSE LET currentLine == Line(w.currentLineIndex)
             afterStrict == IF typingMode = "strict"
                            THEN strictGuard(text, w.lastTypedTextRef)
                            ELSE text
             processedText == IF typingMode = "assist"
                              THEN assistAlign(afterStrict, currentLine.text)
                              ELSE afterStrict
             w1 == setTypedText([w EXCEPT !.lastTypedTextRef = processedText],
                                processedText)
         IN IF isPerfectMatch(processedText, currentLine.text)
            THEN submitLine(setIsLineCompleted(w1, TRUE),
                            Judge(processedText, w.currentLineIndex, w.howlTime, w.combo))
            ELSE w1

\* handleInputKey with Enter submitting the line, as the input's onSubmit did
handleInputKey_submitting(w, key) ==
    IF w.status # "playing" THEN w
    ELSE IF key = "Enter"
         THEN (IF w.isLineCompleted \/ w.currentLineIndex < 0 THEN w
               ELSE submitLine(w, Judge(w.typedText, w.currentLineIndex,
                                        w.howlTime, w.combo)))
         ELSE w

\* handleInputKey without the test of the status
handleInputKey_anyStatus(w, key) ==
    IF key = "Enter"
    THEN (IF w.isLineCompleted THEN w ELSE setTypedText(w, <<>>))
    ELSE w

handleInputKey(w, key) ==
    IF w.status # "playing" THEN w
    ELSE IF key = "Enter"
         THEN (IF w.isLineCompleted THEN w ELSE setTypedText(w, <<>>))
         ELSE w

\* handleSubmitLine without the "already submitted" check
handleSubmitLine_unchecked(w) ==
    IF w.status # "playing" \/ w.currentLineIndex < 0 THEN w
    ELSE submitLine(w, Judge(w.typedText, w.currentLineIndex, w.howlTime, w.combo))

\* handleSubmitLine without the test of the status
handleSubmitLine_anyStatus(w) ==
    IF w.currentLineIndex < 0 THEN w
    ELSE IF alreadySubmitted(w.lineResults, w.currentLineIndex) THEN w
    ELSE submitLine(w, Judge(w.typedText, w.currentLineIndex, w.howlTime, w.combo))

handleSubmitLine(w) ==
    IF w.status # "playing" \/ w.currentLineIndex < 0 THEN w
    ELSE IF alreadySubmitted(w.lineResults, w.currentLineIndex) THEN w
    ELSE submitLine(w, Judge(w.typedText, w.currentLineIndex, w.howlTime, w.combo))

----------------------------------------------------------------------------
(* The session as a state machine *)

TypingModes == {"normal", "strict", "assist"}

InitialWorld ==
    [status |-> "idle",
     currentLineIndex |-> -1,
     typedText |-> <<>>,
     score |-> 0,
     combo |-> 0,
     maxCombo |-> 0,
     isLineCompleted |-> FALSE,
     lineResults |-> <<>>,
     lyricsOffset |-> 0,
     showAutoSubmitNotification |-> FALSE,
     currentTime |-> 0,
     duration |-> 0,
     howlTime |-> 0,
     audioPlaying |-> FALSE,
     lastTypedTextRef |-> <<>>,
     count |-> 0,
     fault |-> FALSE,
     saved |-> NotStored]

\* the primed store and hook variables take the fields of w; op and arg name
\* the event
Assign(w, op, arg) ==
    /\ Len(w.lineResults) <= MaxResults
    /\ status' = w.status
    /\ currentLineIndex' = w.currentLineIndex
    /\ typedText' = w.typedText
    /\ score' = w.score
    /\ combo' = w.combo
    /\ maxCombo' = w.maxCombo
    /\ isLineCompleted' = w.isLineCompleted
    /\ lineResults' = w.lineResults
    /\ lyricsOffset' = w.lyricsOffset
    /\ showAutoSubmitNotification' = w.showAutoSubmitNotification
    /\ currentTime' = w.currentTime
    /\ duration' = w.duration
    /\ howlTime' = w.howlTime
    /\ audioPlaying' = w.audioPlaying
    /\ lastTypedTextRef' = w.lastTypedTextRef
    /\ count' = w.count
    /\ fault' = w.fault
    /\ last' = [op |-> op, arg |-> arg, saved |-> w.saved]

\* an event of the mounted game view that keeps song, mode and view
Commit(w, op, arg) ==
    /\ Assign(w, op, arg)
    /\ UNCHANGED <<lyrics, difficulty, typingMode, view, studyVars>>

\* what localStorage may answer when an event reads or writes the high
\* scores: an empty list, a failing read, a failing write, five better records
StorageStates ==
    {[readable |-> TRUE, writable |-> TRUE, stored |-> <<>>],
     [readable |-> FALSE, writable |-> TRUE, stored |-> <<>>],
     [readable |-> TRUE, writable |-> FALSE, stored |-> <<>>],
     [readable |-> TRUE, writable |-> TRUE,
      stored |-> [k \in 1..MAX_SCORES_PER_SONG |->
                     [songKey |-> ThisSong, score |-> BetterScore]]]}

\* the event handler left store w: render, run the effects, record the event;
\* the storage is an input of the events that reach the high-score check
Handle(w, op, arg) ==
    LET quiet == Settle(World, w, 4, CHOOSE st \in StorageStates : TRUE)
    IN IF quiet.saved = NotStored
       THEN Commit(quiet, op, arg)
       ELSE \E st \in StorageStates : Commit(Settle(World, w, 4, st), op, arg)

\* the game view is mounted
Mounted == view = "game" /\ ~fault

\* the groups of high scores: one per song and difficulty
SongKeys == {ThisSong, OtherSong}

\* the totals that are saved; few of them, so that ties happen
SavedScores == {100, 200, 300}

\* nothing stored under the high-score key; saved counts, per group and
\* score, the records that saveHighScore has written
NoScores == [stored |-> <<>>, saved |-> [p \in SongKeys \X SavedScores |-> 0]]

\* the YtdlpService after construction: no lock, no progress entry, an empty
\* cache, no download started and no caller
IdleService ==
    [downloadLocks |-> {}, downloadProgress |-> {}, cached |-> {},
     downloads |-> <<>>, callers |-> <<>>]

\* useLyrics after the first render: no result, not searching, no controller,
\* no query, no request sent.  searchResults is 0 for the empty list and r for
\* the songs of the response to request r; a controller is named by its request
IdleHook ==
    [searchResults |-> 0, isSearching |-> FALSE,
     abortControllerRef |-> 0, currentQueryRef |-> <<>>, requests |-> <<>>]

\* the score store, the download service and the lyrics hook at rest
ServicesIdle ==
    /\ highScores = NoScores
    /\ ytdlp = IdleService
    /\ lyricsHook = IdleHook

\* the App starts in the search view, no song chosen, the store in its
\* initial state
Init ==
    /\ lyrics = <<>>
    /\ difficulty \in SessionDifficulties
    /\ typingMode = "normal"
    /\ status = InitialWorld.status
    /\ currentLineIndex = InitialWorld.currentLineIndex
    /\ typedText = InitialWorld.typedText
    /\ score = InitialWorld.score
    /\ combo = InitialWorld.combo
    /\ maxCombo = InitialWorld.maxCombo
    /\ isLineCompleted = InitialWorld.isLineCompleted
    /\ lineResults = InitialWorld.lineResults
    /\ lyricsOffset = InitialWorld.lyricsOffset
    /\ showAutoSubmitNotification = InitialWorld.showAutoSubmitNotification
    /\ currentTime = InitialWorld.currentTime
    /\ duration = InitialWorld.duration
    /\ howlTime = InitialWorld.howlTime
    /\ audioPlaying = InitialWorld.audioPlaying
    /\ lastTypedTextRef = InitialWorld.lastTypedTextRef
    /\ count = InitialWorld.count
    /\ view = "search"
    /\ fault = InitialWorld.fault
    /\ last = [op |-> "init", arg |-> <<>>, saved |-> NotStored]
    /\ expectedIn = <<>>
    /\ typedIn = <<>>
    /\ alignedOut = <<"none">>
    /\ call = [fn |-> "none"]
    /\ returned = << >>
    /\ ServicesIdle

\* startPlaying: load the audio, enter the countdown, start the interval
StartPlaying ==
    /\ Mounted
    /\ status = "idle"
    /\ Handle([World EXCEPT !.currentTime = 0, !.duration = 0, !.howlTime = 0,
                             !.audioPlaying = FALSE,
                             !.status = "countdown", !.count = 3],
              "startPlaying", <<>>)

\* the interval callback entering playing one firing early
countdownTick_early(w) ==
    IF w.count - 1 <= 1
    THEN [w EXCEPT !.count = 0, !.status = "playing", !.audioPlaying = TRUE]
    ELSE [w EXCEPT !.count = @ - 1]

\* the callback of the interval of startPlaying: count--, and at zero the
\* interval is cleared, status becomes playing and audio.play() is called
countdownTick(w) ==
    IF w.count - 1 <= 0
    THEN [w EXCEPT !.count = 0, !.status = "playing", !.audioPlaying = TRUE]
    ELSE [w EXCEPT !.count = @ - 1]

\* one firing of the interval of startPlaying
CountdownStep ==
    /\ count > 0
    /\ Handle(countdownTick(World), "countdownStep", <<>>)

\* loadAudio, onload: the duration becomes known
AudioLoaded ==
    /\ Mounted
    /\ status # "idle"
    /\ duration = 0
    /\ \E d \in AudioDurations :
          Handle([World EXCEPT !.duration = d], "audioLoaded", <<>>)

\* the audio position moves on; at the end of the audio onend stops the clock
Advance ==
    /\ Mounted
    /\ audioPlaying
    /\ duration # 0
    /\ howlTime < duration
    /\ howlTime - currentTime < MaxLag * TimeStep
    /\ LET t == Min(howlTime + TimeStep, duration)
       IN Handle([World EXCEPT !.howlTime = t,
                               !.audioPlaying = (t < duration)],
                 "advance", <<>>)

\* updateTime: the audio position is copied into the React state
Tick ==
    /\ Mounted
    /\ audioPlaying
    /\ currentTime # howlTime
    /\ Handle([World EXCEPT !.currentTime = howlTime], "tick", <<>>)

\* texts the input element can report after one edit of the shown text
Edits(text) ==
    {Append(text, k) : k \in {c \in Keys : Len(text) < MaxLen}}
    \cup {SubSeq(text, 1, Len(text) - 1) : n \in {m \in {1} : Len(text) > 0}}

\* handleTyping, the onChange of the input element
HandleTyping ==
    /\ Mounted
    /\ howlTime - currentTime <= MaxEventLag * TimeStep
    /\ \E text \in Edits(typedText) :
          Handle(handleTyping(World, text), "handleTyping", text)

\* handleInputKey, the onKeyDown of the input element; outside a playing
\* session the handler returns before it looks at the key
HandleInputKey ==
    /\ Mounted
    /\ howlTime - currentTime <= MaxEventLag * TimeStep
    /\ \E key \in (IF status = "playing" THEN {"Enter", "a"} ELSE {"Enter"}) :
          Handle(handleInputKey(World, key), "handleInputKey", <<key>>)

HandleSubmitLine ==
    /\ Mounted
    /\ howlTime - currentTime <= MaxEventLag * TimeStep
    /\ Handle(handleSubmitLine(World), "handleSubmitLine", <<>>)

\* the lyrics-offset sliders of the start screen and of the quick settings
SetLyricsOffset ==
    /\ Mounted
    /\ howlTime - currentTime <= MaxEventLag * TimeStep
    /\ status \in {"idle", "playing", "paused"}
    /\ \E offset \in Offsets :
          /\ offset # lyricsOffset
          /\ Handle(setLyricsOffset(World, offset), "setLyricsOffset", <<offset>>)

\* pauseGame of the engine: audio.pause(), then the store's pauseGame
PauseGame ==
    /\ Mounted
    /\ status = "playing"
    /\ howlTime - currentTime <= MaxEventLag * TimeStep
    /\ Handle(storePause([World EXCEPT !.audioPlaying = FALSE]), "pauseGame", <<>>)

\* resumeGame of the engine: audio.play(), then the store's resumeGame;
\* an audio that has ended stays stopped
ResumeGame ==
    /\ Mounted
    /\ status = "paused"
    /\ Handle(storeResume([World EXCEPT !.audioPlaying = (howlTime < duration)]),
              "resumeGame", <<>>)

\* the 1500 ms timer that hides the auto-submit notification
HideNotification ==
    /\ Mounted
    /\ showAutoSubmitNotification
    /\ Handle(setShowAutoSubmitNotification(World, FALSE), "hideNotification", <<>>)

\* the typing mode buttons of the start screen
SetTypingMode ==
    /\ Mounted
    /\ status = "idle"
    /\ \E mode \in TypingModes \ {typingMode} :
          /\ typingMode' = mode
          /\ Assign(World, "setTypingMode", <<mode>>)
          /\ UNCHANGED <<lyrics, difficulty, view, studyVars>>

\* handlePlayAgain going straight to the countdown, as the store's startGame does
handlePlayAgain_restart(w) ==
    [w EXCEPT !.status = "countdown", !.currentLineIndex = -1, !.typedText = <<>>,
              !.score = 0, !.combo = 0, !.maxCombo = 0, !.lineResults = <<>>]

\* handlePlayAgain of the results screen
handlePlayAgain(w) ==
    [w EXCEPT !.status = "idle", !.currentLineIndex = -1, !.typedText = <<>>,
              !.score = 0, !.combo = 0, !.maxCombo = 0, !.lineResults = <<>>]

PlayAgain ==
    /\ Mounted
    /\ status = "finished"
    /\ Handle(handlePlayAgain(World), "playAgain", <<>>)

\* resetGame of the store
resetGame(w) ==
    [w EXCEPT !.status = InitialWorld.status,
              !.currentLineIndex = InitialWorld.currentLineIndex,
              !.typedText = InitialWorld.typedText,
              !.score = InitialWorld.score,
              !.combo = InitialWorld.combo,
              !.maxCombo = InitialWorld.maxCombo,
              !.isLineCompleted = InitialWorld.isLineCompleted,
              !.lineResults = InitialWorld.lineResults,
              !.lyricsOffset = 0,
              !.showAutoSubmitNotification = FALSE]

\* audio.unload()
unload(w) ==
    [w EXCEPT !.audioPlaying = FALSE, !.currentTime = 0, !.duration = 0,
              !.howlTime = 0]

\* the unmount without the cleanup of the countdown
unmount_keepingInterval(w) ==
    [w EXCEPT !.lastTypedTextRef = <<>>]

\* the game view unmounts: the cleanup clears the countdown interval and the
\* refs of the hook are gone
unmount(w) ==
    [w EXCEPT !.count = 0, !.lastTypedTextRef = <<>>]

\* handleBackToSearch of the game view, then the App shows the search view;
\* the history keeps the status the session was left in
BackToSearch ==
    /\ Mounted
    /\ Assign(unmount(resetGame(unload(World))), "backToSearch", <<status>>)
    /\ lyrics' = <<>>
    /\ typingMode' = "normal"
    /\ view' = "search"
    /\ UNCHANGED <<difficulty, studyVars>>

\* handleSelectSong (setSong) and the continue button of the search view
SetSong ==
    /\ view = "search"
    /\ ~fault
    /\ \E lines \in Timelines :
          /\ lyrics' = lines
          /\ view' = "setup"
          /\ Assign([World EXCEPT !.status = "idle"], "setSong", <<>>)
          /\ UNCHANGED <<difficulty, typingMode, studyVars>>

\* the audio is chosen (setAudioSource) and the start button of the setup
\* view mounts the game view
SetAudioSource ==
    /\ view = "setup"
    /\ ~fault
    /\ view' = "game"
    /\ Assign([World EXCEPT !.status = "idle"], "setAudioSource", <<>>)
    /\ UNCHANGED <<lyrics, difficulty, typingMode, studyVars>>

Next ==
    \/ StartPlaying
    \/ CountdownStep
    \/ AudioLoaded
    \/ Advance
    \/ Tick
    \/ HandleTyping
    \/ HandleInputKey
    \/ HandleSubmitLine
    \/ SetLyricsOffset
    \/ PauseGame
    \/ ResumeGame
    \/ HideNotification
    \/ SetTypingMode
    \/ PlayAgain
    \/ BackToSearch
    \/ SetSong
    \/ SetAudioSource

Spec == Init /\ [][Next]_vars

----------------------------------------------------------------------------
(* Assist alignment as a function of the expected text and the typed text *)

StudyChars == {"a", "A", ",", " ", Ellipsis}

\* texts parseLRC keeps: trimmed and not empty
ExpectedTexts ==
    {t \in UNION {[1..n -> StudyChars] : n \in 1..MaxExpected} : trim(t) = t}

SwapCase(c) == IF c = "a" THEN "A" ELSE IF c = "A" THEN "a" ELSE c

\* the texts that differ from text only in the case of letters
CaseVariants(text) ==
    {v \in [1..Len(text) -> StudyChars] :
        \A i \in 1..Len(text) : v[i] \in {text[i], SwapCase(text[i])}}

\* the expected text typed with its punctuation left out, for both character
\* classes the source calls punctuation
TypedWithoutPunctuation(expected) ==
    CaseVariants(removePunctuation(expected))
    \cup CaseVariants(SelectSeq(expected, LAMBDA c : c \notin AssistPunctuation))

InitStudy ==
    /\ lyrics = parseLRC(LrcPlain)
    /\ difficulty = "medium"
    /\ typingMode = "assist"
    /\ status = InitialWorld.status
    /\ currentLineIndex = InitialWorld.currentLineIndex
    /\ typedText = InitialWorld.typedText
    /\ score = InitialWorld.score
    /\ combo = InitialWorld.combo
    /\ maxCombo = InitialWorld.maxCombo
    /\ isLineCompleted = InitialWorld.isLineCompleted
    /\ lineResults = InitialWorld.lineResults
    /\ lyricsOffset = InitialWorld.lyricsOffset
    /\ showAutoSubmitNotification = InitialWorld.showAutoSubmitNotification
    /\ currentTime = InitialWorld.currentTime
    /\ duration = InitialWorld.duration
    /\ howlTime = InitialWorld.howlTime
    /\ audioPlaying = InitialWorld.audioPlaying
    /\ lastTypedTextRef = InitialWorld.lastTypedTextRef
    /\ count = InitialWorld.count
    /\ view = "game"
    /\ fault = InitialWorld.fault
    /\ last = [op |-> "init", arg |-> <<>>, saved |-> NotStored]
    /\ expectedIn \in ExpectedTexts
    /\ typedIn \in TypedWithoutPunctuation(expectedIn)
    /\ alignedOut = <<"none">>
    /\ call = [fn |-> "none"]
    /\ returned = << >>
    /\ ServicesIdle

\* the assist branch of handleTyping applied to the typed text
AlignStudy ==
    /\ alignedOut = <<"none">>
    /\ alignedOut' = assistAlign(typedIn, expectedIn)
    /\ UNCHANGED <<expectedIn, typedIn, call, returned, highScores, ytdlp, lyricsHook>>
    /\ UNCHANGED sessionVars

NextStudy == AlignStudy

SpecStudy == InitStudy /\ [][NextStudy]_vars

----------------------------------------------------------------------------
(* The offset of the store under direct calls of its actions *)

\* integers setLyricsOffset is called with: a grid over the requests and
\* every integer around the two ends of the range
OffsetRequests ==
    {o \in (0 - MaxRequest)..MaxRequest :
        o % RequestStep = 0 \/ (Abs(o) >= 1990 /\ Abs(o) <= 2010)}

\* setLyricsOffset of the store called with any of the requests
StoreSetLyricsOffset ==
    \E offset \in OffsetRequests :
        Commit(setLyricsOffset(World, offset), "setLyricsOffset", <<offset>>)

\* resetGame of the store
StoreResetGame ==
    Commit(resetGame(World), "resetGame", <<>>)

NextStore == StoreSetLyricsOffset \/ StoreResetGame

SpecStore == Init /\ [][NextStore]_vars

----------------------------------------------------------------------------
(* The pure functions of the scorer under direct calls *)

\* n times the letter a
Full(n) == [i \in 1..n |-> "a"]

\* the same with the last letter mistyped
Near(n) == [i \in 1..n |-> IF i = n THEN "b" ELSE "a"]

\* typed and expected texts of the scored calls: exact, empty, half right,
\* one letter wrong of LongLen and of LongLen - 1
ScoredPairs ==
    {<< <<"a">>, <<"a">> >>, << << >>, <<"a">> >>, << <<"a">>, <<"a", "b">> >>,
     <<Near(LongLen), Full(LongLen)>>, <<Near(LongLen - 1), Full(LongLen - 1)>>}

\* judged times of the scored calls, relative to the start of the line: the
\* grid and its two neighbours, which holds every window end of the profiles
ScoredDiffs ==
    {d \in (0 - MaxDiff)..MaxDiff : d % DiffStep \in {0, 1, DiffStep - 1}}

\* combos the scored calls start from: small ones and those around the cap
\* of the combo bonus of each profile
ComboInputs ==
    {c \in 0..MaxComboIn : c < 3 \/ (c >= 49 /\ c % 50 \in {0, 1, 49})}

\* the {time, text} pairs pushed for a file of up to MaxLines timed lines, in
\* file order: any order of the timestamps, repeated ones included
LrcInputs ==
    UNION {[1..n -> {[time |-> k * 1000, text |-> <<"a">>] : k \in 1..MaxLines}] :
              n \in 0..MaxLines}

\* times a timeline is asked at: the grid and its two neighbours, which holds
\* the start of every line, the ms before and the ms after
TimeQueries == {t \in 0..MaxQuery : t % QueryStep \in {0, 1, QueryStep - 1}}

\* texts of up to MaxText characters: two letters, one of them in both
\* cases, a punctuation mark and the space
AccuracyTexts ==
    UNION {[1..n -> {"a", "A", "b", ",", " "}] : n \in 0..MaxText}

\* the store in its initial state and one call with its arguments chosen
InitCalls ==
    /\ lyrics = <<>>
    /\ difficulty = "medium"
    /\ typingMode = "normal"
    /\ status = InitialWorld.status
    /\ currentLineIndex = InitialWorld.currentLineIndex
    /\ typedText = InitialWorld.typedText
    /\ score = InitialWorld.score
    /\ combo = InitialWorld.combo
    /\ maxCombo = InitialWorld.maxCombo
    /\ isLineCompleted = InitialWorld.isLineCompleted
    /\ lineResults = InitialWorld.lineResults
    /\ lyricsOffset = InitialWorld.lyricsOffset
    /\ showAutoSubmitNotification = InitialWorld.showAutoSubmitNotification
    /\ currentTime = InitialWorld.currentTime
    /\ duration = InitialWorld.duration
    /\ howlTime = InitialWorld.howlTime
    /\ audioPlaying = InitialWorld.audioPlaying
    /\ lastTypedTextRef = InitialWorld.lastTypedTextRef
    /\ count = InitialWorld.count
    /\ view = "search"
    /\ fault = InitialWorld.fault
    /\ last = [op |-> "init", arg |-> <<>>, saved |-> NotStored]
    /\ expectedIn = <<>>
    /\ typedIn = <<>>
    /\ alignedOut = <<"none">>
    /\ returned = << >>
    /\ ServicesIdle
    /\ \/ \E p \in ScoredPairs, d \in ScoredDiffs, c \in ComboInputs,
             diffName \in Difficulties :
             call = [fn |-> "calculateLineScore", typed |-> p[1], expected |-> p[2],
                     typedTimeMs |-> ScoreTarget + d, expectedTimeMs |-> ScoreTarget,
                     lineEndTimeMs |-> ScoreTarget + 5000, combo |-> c,
                     difficulty |-> diffName]
       \* every judged time within MaxDiff of the start of the line
       \/ \E d \in (0 - MaxDiff)..MaxDiff, diffName \in Difficulties :
             call = [fn |-> "calculateTimingResult", typedTimeMs |-> ScoreTarget + d,
                     expectedTimeMs |-> ScoreTarget, difficulty |-> diffName]
       \/ \E e \in LrcInputs :
             call = [fn |-> "parseLRC", entries |-> e]
       \/ \E e \in LrcInputs, t \in TimeQueries :
             call = [fn |-> "getCurrentLineIndex", lines |-> parseLRC(e),
                     currentTimeMs |-> t]
       \/ \E t \in AccuracyTexts, e \in AccuracyTexts :
             call = [fn |-> "calculateCharacterAccuracy", typed |-> t, expected |-> e]

\* a call returns: the other variables stay
Return(value) ==
    /\ returned = << >>
    /\ ServicesIdle
    /\ returned' = <<value>>
    /\ UNCHANGED <<sessionVars, expectedIn, typedIn, alignedOut, call,
                   highScores, ytdlp, lyricsHook>>

CallLineScore ==
    /\ call.fn = "calculateLineScore"
    /\ Return(calculateLineScore(call.typed, call.expected, call.typedTimeMs,
                                 call.expectedTimeMs, call.lineEndTimeMs,
                                 call.combo, call.difficulty))

CallTimingResult ==
    /\ call.fn = "calculateTimingResult"
    /\ Return(calculateTimingResult(call.typedTimeMs, call.expectedTimeMs,
                                    DIFFICULTY_SETTINGS[call.difficulty]))

CallParse ==
    /\ call.fn = "parseLRC"
    /\ Return(parseLRC(call.entries))

CallLineAt ==
    /\ call.fn = "getCurrentLineIndex"
    /\ Return(getCurrentLineIndex(call.lines, call.currentTimeMs))

CallAccuracy ==
    /\ call.fn = "calculateCharacterAccuracy"
    /\ Return(calculateCharacterAccuracy(call.typed, call.expected))

NextCalls ==
    \/ CallLineScore
    \/ CallTimingResult
    \/ CallParse
    \/ CallLineAt
    \/ CallAccuracy

SpecCalls == InitCalls /\ [][NextCalls]_vars

----------------------------------------------------------------------------
(* A session that is played to the end of its audio, never paused or quit *)

\* lengths of the audio, in ms: shorter than the end of every last line of
\* Timelines, and longer
PlayedDurations == {4000, 10000}

\* the third countdown step has set status to playing and started the audio,
\* whose duration is known
InitPlayed ==
    /\ lyrics \in Timelines \ {<<>>}
    /\ difficulty \in SessionDifficulties
    /\ typingMode = "normal"
    /\ status = "playing"
    /\ currentLineIndex = InitialWorld.currentLineIndex
    /\ typedText = InitialWorld.typedText
    /\ score = InitialWorld.score
    /\ combo = InitialWorld.combo
    /\ maxCombo = InitialWorld.maxCombo
    /\ isLineCompleted = InitialWorld.isLineCompleted
    /\ lineResults = InitialWorld.lineResults
    /\ lyricsOffset = InitialWorld.lyricsOffset
    /\ showAutoSubmitNotification = InitialWorld.showAutoSubmitNotification
    /\ currentTime = 0
    /\ duration \in PlayedDurations
    /\ howlTime = 0
    /\ audioPlaying = TRUE
    /\ lastTypedTextRef = InitialWorld.lastTypedTextRef
    /\ count = 0
    /\ view = "game"
    /\ fault = FALSE
    /\ last = [op |-> "countdownStep", arg |-> <<>>, saved |-> NotStored]
    /\ expectedIn = <<>>
    /\ typedIn = <<>>
    /\ alignedOut = <<"none">>
    /\ call = [fn |-> "none"]
    /\ returned = << >>
    /\ ServicesIdle

\* the events of a session other than pause, resume, play again and quit
NextPlayed ==
    \/ Advance
    \/ Tick
    \/ HandleTyping
    \/ HandleInputKey
    \/ HandleSubmitLine
    \/ SetLyricsOffset
    \/ HideNotification

\* the audio keeps playing until it ends and the frame loop keeps copying its
\* position while it plays
SpecPlayed ==
    InitPlayed /\ [][NextPlayed]_vars /\ WF_vars(Advance) /\ WF_vars(Tick)

----------------------------------------------------------------------------
(* One text change on an active line: every expected text and every text  *)
(* the input element can report in one change (typing, paste, IME)        *)

\* a playing session whose only line is active and unjudged; call holds the
\* text the next change of the input element reports
InitTyped ==
    /\ \E expected \in ExpectedTexts :
          lyrics = parseLRC(<<[time |-> TimeStep, text |-> expected]>>)
    /\ difficulty \in SessionDifficulties
    /\ typingMode \in TypingModes
    /\ status = "playing"
    /\ currentLineIndex = 0
    /\ typedText = InitialWorld.typedText
    /\ score = InitialWorld.score
    /\ combo = InitialWorld.combo
    /\ maxCombo = InitialWorld.maxCombo
    /\ isLineCompleted = InitialWorld.isLineCompleted
    /\ lineResults = InitialWorld.lineResults
    /\ lyricsOffset = InitialWorld.lyricsOffset
    /\ showAutoSubmitNotification = InitialWorld.showAutoSubmitNotification
    /\ currentTime = TimeStep
    /\ duration \in AudioDurations
    /\ howlTime = TimeStep
    /\ audioPlaying = TRUE
    /\ lastTypedTextRef = InitialWorld.lastTypedTextRef
    /\ count = 0
    /\ view = "game"
    /\ fault = FALSE
    /\ last = [op |-> "tick", arg |-> <<>>, saved |-> NotStored]
    /\ expectedIn = <<>>
    /\ typedIn = <<>>
    /\ alignedOut = <<"none">>
    /\ \E text \in UNION {[1..n -> StudyChars] : n \in 0..MaxExpected} :
          call = [fn |-> "handleTyping", text |-> text]
    /\ returned = << >>
    /\ ServicesIdle

\* handleTyping, the onChange of the input element, with the reported text
TextChange ==
    /\ Mounted
    /\ call.fn = "handleTyping"
    /\ last.op = "tick"
    /\ Handle(handleTyping(World, call.text), "handleTyping", call.text)

SpecTyped == InitTyped /\ [][TextChange]_vars

----------------------------------------------------------------------------
(* utils/storage: saveHighScore called again and again on one store *)

\* the largest number of records written in one run
MaxSaves == 7

RECURSIVE SumOver(_, _)
SumOver(f, S) ==
    IF S = {} THEN 0
    ELSE LET x == CHOOSE x \in S : TRUE
         IN f[x] + SumOver(f, S \ {x})

\* the records saveHighScore has written so far
WrittenRecords == SumOver(highScores.saved, SongKeys \X SavedScores)

\* one call of saveHighScore, for any group and total and whether or not the
\* total is a high score; setItem may throw (quota, private mode), which the
\* function catches
SaveHighScore ==
    /\ WrittenRecords < MaxSaves
    /\ \E songKey \in SongKeys, totalScore \in SavedScores, writable \in BOOLEAN :
          LET st == [readable |-> TRUE, writable |-> writable,
                     stored |-> highScores.stored]
              done == saveHighScore(st, songKey, totalScore)
          IN /\ highScores' =
                    IF done.outcome = "written"
                    THEN [stored |-> finalScores(st, songKey, totalScore),
                          saved |-> [highScores.saved
                                        EXCEPT ![<<songKey, totalScore>>] = @ + 1]]
                    ELSE highScores
             /\ call' = [fn |-> "saveHighScore", songKey |-> songKey,
                         score |-> totalScore,
                         high |-> isHighScore(st, songKey, totalScore),
                         outcome |-> done.outcome]
    /\ UNCHANGED <<sessionVars, expectedIn, typedIn, alignedOut, returned,
                   ytdlp, lyricsHook>>

SpecScores == Init /\ [][SaveHighScore]_vars

----------------------------------------------------------------------------
(* YtdlpService: concurrent calls of downloadAudio.  A download is named   *)
(* by its position in ytdlp.downloads, which stands for its promise.       *)

VideoIds == {"v1", "v2"}

\* the largest number of calls of downloadAudio in one run
MaxCallers == 5

\* downloadLocks.get(videoId), as a set of at most one entry
LockOf(y, videoId) == {l \in y.downloadLocks : l[1] = videoId}

\* downloadAudio starting performDownload without looking at the lock
downloadAudio_unlocked(y, videoId) ==
    IF videoId \in y.cached
    THEN [y EXCEPT !.callers = Append(@, [videoId |-> videoId, promise |-> 0,
                                          starter |-> FALSE, outcome |-> "path"])]
    ELSE LET downloadPromise == Len(y.downloads) + 1
         IN [y EXCEPT !.downloadProgress = @ \cup {videoId},
                      !.downloads = Append(@, [videoId |-> videoId,
                                               state |-> "running"]),
                      !.downloadLocks = (@ \ LockOf(y, videoId))
                                           \cup {<<videoId, downloadPromise>>},
                      !.callers = Append(@, [videoId |-> videoId,
                                             promise |-> downloadPromise,
                                             starter |-> TRUE,
                                             outcome |-> "pending"])]

\* downloadAudio up to its await: a cached file is returned, a locked video
\* returns the promise of the lock, otherwise performDownload runs up to its
\* own await (the progress entry is set) and its promise becomes the lock
downloadAudio(y, videoId) ==
    IF videoId \in y.cached
    THEN [y EXCEPT !.callers = Append(@, [videoId |-> videoId, promise |-> 0,
                                          starter |-> FALSE, outcome |-> "path"])]
    ELSE IF LockOf(y, videoId) # {}
    THEN LET existingDownload == (CHOOSE l \in LockOf(y, videoId) : TRUE)[2]
         IN [y EXCEPT !.callers = Append(@, [videoId |-> videoId,
                                             promise |-> existingDownload,
                                             starter |-> FALSE,
                                             outcome |-> "pending"])]
    ELSE LET downloadPromise == Len(y.downloads) + 1
         IN [y EXCEPT !.downloadProgress = @ \cup {videoId},
                      !.downloads = Append(@, [videoId |-> videoId,
                                               state |-> "running"]),
                      !.downloadLocks = (@ \ LockOf(y, videoId))
                                           \cup {<<videoId, downloadPromise>>},
                      !.callers = Append(@, [videoId |-> videoId,
                                             promise |-> downloadPromise,
                                             starter |-> TRUE,
                                             outcome |-> "pending"])]

\* callers whose promise is settled and who have not continued yet
Continuing(y) ==
    {c \in 1..Len(y.callers) :
        /\ y.callers[c].outcome = "pending"
        /\ y.downloads[y.callers[c].promise].state # "running"}

\* the continuation of the caller that started a settled download is queued
\* before every other reaction to it, so no other call meets its lock
StartersDone(y) == \A c \in Continuing(y) : ~y.callers[c].starter

\* the session and the direct calls stay as they are, and so do the others
Untouched(others) ==
    /\ UNCHANGED <<sessionVars, expectedIn, typedIn, alignedOut, call, returned>>
    /\ UNCHANGED others

\* a request handler calls downloadAudio
DownloadAudio ==
    /\ Len(ytdlp.callers) < MaxCallers
    /\ StartersDone(ytdlp)
    /\ \E videoId \in VideoIds : ytdlp' = downloadAudio(ytdlp, videoId)
    /\ Untouched(<<highScores, lyricsHook>>)

\* yt-dlp exits, times out or fails to start: execYtdlp settles and
\* performDownload runs to its end; with the temp file in place it is renamed
\* to the cached path, otherwise the promise is rejected
ProcessCloses ==
    /\ Continuing(ytdlp) = {}
    /\ \E d \in 1..Len(ytdlp.downloads), ok \in BOOLEAN :
          /\ ytdlp.downloads[d].state = "running"
          /\ ytdlp' = [ytdlp EXCEPT
                          !.downloads[d].state = IF ok THEN "resolved" ELSE "rejected",
                          !.cached = IF ok THEN @ \cup {ytdlp.downloads[d].videoId}
                                     ELSE @]
    /\ Untouched(<<highScores, lyricsHook>>)

\* a caller continues after its promise settled; the caller that started the
\* download first runs its finally block
Continue ==
    /\ \E c \in Continuing(ytdlp) :
          LET caller == ytdlp.callers[c]
              result == IF ytdlp.downloads[caller.promise].state = "resolved"
                        THEN "path" ELSE "error"
          IN /\ caller.starter \/ StartersDone(ytdlp)
             /\ ytdlp' = [ytdlp EXCEPT
                             !.callers[c].outcome = result,
                             !.downloadLocks = IF caller.starter
                                               THEN @ \ LockOf(ytdlp, caller.videoId)
                                               ELSE @,
                             !.downloadProgress = IF caller.starter
                                                  THEN @ \ {caller.videoId}
                                                  ELSE @]
    /\ Untouched(<<highScores, lyricsHook>>)

NextDownloads == DownloadAudio \/ ProcessCloses \/ Continue

SpecDownloads == Init /\ [][NextDownloads]_vars

----------------------------------------------------------------------------
(* hooks/useLyrics: searchSongs calls and the arrival of their responses.  *)
(* A request is named by its position in lyricsHook.requests.              *)

\* the texts searchSongs is called with: two searches, an empty text and a
\* text of white space
SearchQueries == {<<"a">>, <<"b">>, <<>>, <<" ">>}

\* the largest number of requests sent in one run
MaxSearches == 3

\* cancelSearch: controller.abort() rejects a request that has not settled
\* with an AbortError, a settled one ignores it
cancelSearch(h) ==
    IF h.abortControllerRef # 0
    THEN [h EXCEPT !.requests[h.abortControllerRef].state =
                        IF @ \in {"fetching", "reading"} THEN "aborted" ELSE @,
                   !.abortControllerRef = 0]
    ELSE h

\* searchSongs up to its first await
searchSongs(h, query) ==
    IF trim(query) = <<>>
    THEN [h EXCEPT !.searchResults = 0, !.currentQueryRef = <<>>]
    ELSE LET h1 == cancelSearch(h)
         IN [h1 EXCEPT !.requests = Append(@, [query |-> query, state |-> "fetching"]),
                       !.abortControllerRef = Len(h1.requests) + 1,
                       !.currentQueryRef = query,
                       !.isSearching = TRUE]

\* the finally block of the call that sent request r
finallyOf(h, r) ==
    [h EXCEPT !.isSearching = IF h.currentQueryRef = h.requests[r].query
                              THEN FALSE ELSE @,
              !.requests[r].state = "done"]

\* the catch block for an error that is not an AbortError
catchOf(h, r) == finallyOf([h EXCEPT !.searchResults = 0], r)

\* the requests whose call of searchSongs has not returned
Unsettled(h) == {r \in 1..Len(h.requests) : h.requests[r].state # "done"}

SearchSongs ==
    /\ \E query \in SearchQueries :
          /\ trim(query) # <<>> => Len(lyricsHook.requests) < MaxSearches
          /\ lyricsHook' = searchSongs(lyricsHook, query)
    /\ Untouched(<<highScores, ytdlp>>)

CancelSearch ==
    /\ lyricsHook' = cancelSearch(lyricsHook)
    /\ Untouched(<<highScores, ytdlp>>)

\* fetch settles: with a response (ok or not), or with a network error
ResponseArrives ==
    /\ \E r \in 1..Len(lyricsHook.requests), how \in {"ok", "notOk", "failed"} :
          /\ lyricsHook.requests[r].state = "fetching"
          /\ lyricsHook' =
                IF how = "failed" THEN catchOf(lyricsHook, r)
                ELSE IF lyricsHook.currentQueryRef # lyricsHook.requests[r].query
                THEN finallyOf(lyricsHook, r)
                ELSE IF how = "notOk" THEN catchOf(lyricsHook, r)
                ELSE [lyricsHook EXCEPT !.requests[r].state = "reading"]
    /\ Untouched(<<highScores, ytdlp>>)

\* response.json() settles: the songs are stored, or the body was no JSON
BodyRead ==
    /\ \E r \in 1..Len(lyricsHook.requests), parsed \in BOOLEAN :
          /\ lyricsHook.requests[r].state = "reading"
          /\ lyricsHook' =
                IF parsed
                THEN finallyOf([lyricsHook EXCEPT !.searchResults = r], r)
                ELSE catchOf(lyricsHook, r)
    /\ Untouched(<<highScores, ytdlp>>)

\* the AbortError reaches the catch block, which returns
AbortDelivered ==
    /\ \E r \in 1..Len(lyricsHook.requests) :
          /\ lyricsHook.requests[r].state = "aborted"
          /\ lyricsHook' = finallyOf(lyricsHook, r)
    /\ Untouched(<<highScores, ytdlp>>)

NextSearch ==
    SearchSongs \/ CancelSearch \/ ResponseArrives \/ BodyRead \/ AbortDelivered

SpecSearch == Init /\ [][NextSearch]_vars

\* the call has returned
Returned == Len(returned) = 1

----------------------------------------------------------------------------
(* Properties *)

\* the active line index names a line of the timeline
HasActiveLine == currentLineIndex >= 0 /\ currentLineIndex < Len(lyrics)

LastLineIndex == Len(lyrics) - 1

\* the text normalization of the early-completion test
Normalized(text) == toLowerCase(removePunctuation(text))

\* the judgment of line index on text typed, judged at judgedAtMs against the
\* start of the line, with the combo and the difficulty of the current state
JudgmentOf(index, typed, judgedAtMs) ==
    [calculateLineScore(typed, lyrics[index + 1].text, judgedAtMs,
                        lyrics[index + 1].time, lyrics[index + 1].endTime,
                        combo, difficulty)
        EXCEPT !.lineIndex = index]

\* the buffer a text change leaves after the input policy is applied
PolicyApplied(text) ==
    IF typingMode = "strict" THEN strictGuard(text, lastTypedTextRef)
    ELSE IF typingMode = "assist" THEN assistAlign(text, lyrics[currentLineIndex + 1].text)
    ELSE text

\* C1: lineResults never holds two judgments of the same line index.
C1_OneJudgmentPerLine ==
    \A i, j \in 1..Len(lineResults) :
        i # j => lineResults[i].lineIndex # lineResults[j].lineIndex

\* C2: in a finished session every line index of the timeline has a judgment.
C2_NoLineMissed ==
    status = "finished" =>
        \A index \in 0..LastLineIndex : alreadySubmitted(lineResults, index)

\* C3: a tick while playing that moves the active line to a new index >= 0
\* appends exactly one judgment, that of the previous line, built from the
\* typed buffer, the unadjusted audio time and the line's start, and raises the
\* auto-submit notice, when the previous line is in range and unjudged; it
\* appends nothing when the previous line already has a judgment.
C3_TickAutoJudges ==
    [][ (last'.op = "tick" /\ status = "playing"
         /\ getCurrentLineIndex(lyrics, currentTime' + lyricsOffset) >= 0
         /\ getCurrentLineIndex(lyrics, currentTime' + lyricsOffset) # currentLineIndex)
        => IF HasActiveLine /\ ~alreadySubmitted(lineResults, currentLineIndex)
           THEN /\ lineResults' = Append(lineResults,
                                         JudgmentOf(currentLineIndex, typedText, currentTime'))
                /\ showAutoSubmitNotification'
           ELSE lineResults' = lineResults ]_vars

\* C3 witness: a tick has auto-judged a line on a non-empty typed buffer while
\* the lyrics offset was not zero.
C3_Witness ==
    /\ last.op = "tick"
    /\ showAutoSubmitNotification
    /\ lyricsOffset # 0
    /\ Len(lineResults) > 0
    /\ lineResults[Len(lineResults)].lineIndex < currentLineIndex
    /\ Len(lineResults[Len(lineResults)].typedText) > 0

\* C4: a tick while playing with a known duration that brings the audio time
\* to the last line's end or beyond finishes the session and pauses the audio,
\* after appending the judgment of the last line when that line was active and
\* unjudged; a tick that leaves the audio time before that end does not finish.
C4_EndOfSession ==
    [][ (last'.op = "tick" /\ status = "playing" /\ duration # 0)
        => /\ currentTime' >= lyrics[Len(lyrics)].endTime
                => /\ status' = "finished"
                   /\ ~audioPlaying'
                   /\ (currentLineIndex = LastLineIndex
                       /\ ~alreadySubmitted(lineResults, LastLineIndex))
                        => lineResults' = Append(lineResults,
                                                 JudgmentOf(LastLineIndex, typedText,
                                                            currentTime'))
           /\ currentTime' < lyrics[Len(lyrics)].endTime => status' # "finished" ]_vars

\* C4 witness: a tick has finished the session with the judgment of the last
\* line, made on a non-empty buffer, as the newest judgment.
C4_Witness ==
    /\ last.op = "tick"
    /\ status = "finished"
    /\ ~audioPlaying
    /\ Len(lineResults) > 0
    /\ lineResults[Len(lineResults)].lineIndex = LastLineIndex
    /\ Len(lineResults[Len(lineResults)].typedText) > 0
    /\ currentTime = lyrics[Len(lyrics)].endTime

\* C5: a text change while playing on an unlocked active line locks the line
\* and appends one judgment of it, judged at the live audio time against the
\* line's start, when the buffer left by the input policy normalizes to the
\* non-empty normalized expected text; otherwise, and when no line is active,
\* it appends nothing and the line stays unlocked.
C5_EarlyCompletion ==
    [][ (last'.op = "handleTyping" /\ status = "playing" /\ ~isLineCompleted)
        => IF ~HasActiveLine
           THEN ~isLineCompleted' /\ lineResults' = lineResults
           ELSE
           LET buffer == PolicyApplied(last'.arg)
               expected == lyrics[currentLineIndex + 1].text
           IN IF Normalized(buffer) = Normalized(expected) /\ Len(Normalized(buffer)) > 0
              THEN /\ isLineCompleted'
                   /\ lineResults' = Append(lineResults,
                                            JudgmentOf(currentLineIndex, buffer, howlTime))
              ELSE /\ ~isLineCompleted'
                   /\ lineResults' = lineResults
                   /\ typedText' = buffer ]_vars

\* C5 witness: a text change has completed the active line while the React
\* time lagged behind the live audio time.
C5_Witness ==
    /\ last.op = "handleTyping"
    /\ status = "playing"
    /\ isLineCompleted
    /\ howlTime # currentTime
    /\ Len(lineResults) > 0
    /\ lineResults[Len(lineResults)].lineIndex = currentLineIndex

\* C6: while playing, an active line that has a judgment is locked.
C6_JudgedLineIsLocked ==
    (status = "playing" /\ HasActiveLine
     /\ alreadySubmitted(lineResults, currentLineIndex)) => isLineCompleted

\* C7: a manual submit while playing with an active line appends the judgment
\* of the active line exactly when that line has none; on a judged line it
\* leaves lineResults, score, combo and maxCombo unchanged.
C7_ManualSubmit ==
    [][ (last'.op = "handleSubmitLine" /\ status = "playing" /\ HasActiveLine)
        => IF ~alreadySubmitted(lineResults, currentLineIndex)
           THEN lineResults' = Append(lineResults,
                                      JudgmentOf(currentLineIndex, typedText, howlTime))
           ELSE UNCHANGED <<lineResults, score, combo, maxCombo>> ]_vars

\* C7 witness: a manual submit was issued on a line that already had its
\* judgment.
C7_Witness ==
    /\ last.op = "handleSubmitLine"
    /\ status = "playing"
    /\ HasActiveLine
    /\ ~isLineCompleted
    /\ alreadySubmitted(lineResults, currentLineIndex)
    /\ Len(lineResults) = 1

\* C8 as claimed: in strict mode no keystroke event, text change or named
\* key, shortens typedText while the same line stays active.
C8_StrictNeverShrinks ==
    [][ (typingMode = "strict" /\ last'.op \in {"handleTyping", "handleInputKey"}
         /\ currentLineIndex' = currentLineIndex)
        => Len(typedText') >= Len(typedText) ]_vars

\* C8 as amended: in strict mode a text change that judges no line never
\* shortens typedText.
C8_StrictTextChange ==
    [][ (typingMode = "strict" /\ last'.op = "handleTyping"
         /\ lineResults' = lineResults)
        => Len(typedText') >= Len(typedText) ]_vars

\* C8 witness: in strict mode a deletion was reported and the buffer kept its
\* text.
C8_Witness ==
    /\ typingMode = "strict"
    /\ last.op = "handleTyping"
    /\ Len(last.arg) < Len(typedText)

\* the assist study has run and its inputs are those of the claim
StudyDone == alignedOut # <<"none">>

\* C9 as claimed: the aligned buffer of a text typed without the expected
\* punctuation normalizes to the normalized expected text, has accuracy 1 and
\* passes the early-completion test.
C9_AssistReachesPerfect ==
    StudyDone =>
        /\ Normalized(alignedOut) = Normalized(expectedIn)
        /\ calculateCharacterAccuracy(alignedOut, expectedIn) = One
        /\ isPerfectMatch(alignedOut, expectedIn)

\* C9 as amended: the same for every non-empty typed text.
C9_AssistNonEmptyReachesPerfect ==
    (StudyDone /\ Len(typedIn) > 0) =>
        /\ Normalized(alignedOut) = Normalized(expectedIn)
        /\ calculateCharacterAccuracy(alignedOut, expectedIn) = One
        /\ isPerfectMatch(alignedOut, expectedIn)

\* C9 witness: a text typed without punctuation and in another case was
\* aligned to an expected text with punctuation inside and at its end.
C9_Witness ==
    /\ StudyDone
    /\ Len(typedIn) > 0
    /\ Len(alignedOut) > Len(typedIn) + 1
    /\ typedIn # removePunctuation(expectedIn)
    /\ expectedIn[Len(expectedIn)] \in AssistPunctuation

\* C10: Enter while playing on an unlocked line empties typedText and leaves
\* lineResults, score, combo, maxCombo, currentLineIndex and status as they
\* were; on a locked line it changes nothing.
C10_ClearInput ==
    [][ (last'.op = "handleInputKey" /\ last'.arg = <<"Enter">> /\ status = "playing")
        => IF ~isLineCompleted
           THEN /\ typedText' = <<>>
                /\ UNCHANGED <<lineResults, score, combo, maxCombo,
                               currentLineIndex, status>>
           ELSE UNCHANGED <<status, currentLineIndex, typedText, score, combo, maxCombo,
                            isLineCompleted, lineResults, lyricsOffset,
                            showAutoSubmitNotification, currentTime, duration, howlTime,
                            audioPlaying, lastTypedTextRef, count>> ]_vars

\* C10 witness: Enter was pressed while playing on an active, unlocked line
\* that has no judgment, after the audio had started to move.
C10_Witness ==
    /\ last.op = "handleInputKey"
    /\ last.arg = <<"Enter">>
    /\ status = "playing"
    /\ HasActiveLine
    /\ ~isLineCompleted
    /\ typedText = <<>>
    /\ currentTime > 0
    /\ lineResults = <<>>

\* C11 as stated: after a tick that changes currentLineIndex, typedText is
\* empty and isLineCompleted is false; a tick that does not change
\* currentLineIndex leaves typedText and isLineCompleted unchanged.
C11_TickKeepsBuffer ==
    [][ last'.op = "tick"
        => IF currentLineIndex' # currentLineIndex
           THEN typedText' = <<>> /\ ~isLineCompleted'
           ELSE UNCHANGED <<typedText, isLineCompleted>> ]_vars

\* C11 amended: after a tick that changes currentLineIndex, typedText is empty
\* and isLineCompleted is false; a tick that does not change currentLineIndex
\* leaves isLineCompleted unchanged, and leaves typedText unchanged unless it
\* ends the session by judging the active last line, which empties typedText.
C11_TickKeepsBufferUnlessJudged ==
    [][ last'.op = "tick"
        => IF currentLineIndex' # currentLineIndex
           THEN typedText' = <<>> /\ ~isLineCompleted'
           ELSE /\ isLineCompleted' = isLineCompleted
                /\ IF /\ status' = "finished"
                      /\ currentLineIndex = LastLineIndex
                      /\ ~alreadySubmitted(lineResults, LastLineIndex)
                   THEN typedText' = <<>>
                   ELSE typedText' = typedText ]_vars

\* C11 witness: a tick has moved a playing session from a line with a typed,
\* unjudged buffer to the next line; the buffer is empty and the line unlocked.
C11_Witness ==
    /\ last.op = "tick"
    /\ status = "playing"
    /\ currentLineIndex > 0
    /\ typedText = <<>>
    /\ ~isLineCompleted
    /\ Len(lineResults) > 0
    /\ lineResults[Len(lineResults)].lineIndex = currentLineIndex - 1
    /\ Len(lineResults[Len(lineResults)].typedText) > 0

\* C12: in a paused session a tick (the audio position copied into the React
\* state), a text change, a key of the input element and handleSubmitLine
\* change none of lineResults, score, combo, typedText, isLineCompleted and
\* currentLineIndex; resumeGame sets status to playing; handleBackToSearch
\* puts the session back to its initial values and leaves the game view.
C12_PausedIsInert ==
    [][ (status = "paused" /\ Mounted)
        => /\ \A st \in StorageStates :
                LET ticked == Settle(World, [World EXCEPT !.currentTime = howlTime], 4, st)
                IN /\ ticked.lineResults = lineResults
                   /\ ticked.score = score
                   /\ ticked.combo = combo
                   /\ ticked.typedText = typedText
                   /\ ticked.isLineCompleted = isLineCompleted
                   /\ ticked.currentLineIndex = currentLineIndex
                   /\ ticked.status = "paused"
           /\ last'.op \in {"handleTyping", "handleInputKey", "handleSubmitLine"}
                => UNCHANGED <<lineResults, score, combo, typedText, isLineCompleted,
                               currentLineIndex, status>>
           /\ last'.op = "resumeGame" => status' = "playing"
           /\ last'.op = "backToSearch"
                => /\ status' = "idle"
                   /\ currentLineIndex' = -1
                   /\ typedText' = <<>>
                   /\ ~isLineCompleted'
                   /\ score' = 0 /\ combo' = 0 /\ maxCombo' = 0
                   /\ lineResults' = <<>>
                   /\ view' = "search" ]_vars

\* C12 witness: the Enter key was pressed in a paused session that holds a
\* typed buffer on an unlocked active line and a judgment, with the audio
\* position ahead of the React time.
C12_Witness ==
    /\ last.op = "handleInputKey"
    /\ last.arg = <<"Enter">>
    /\ status = "paused"
    /\ HasActiveLine
    /\ ~isLineCompleted
    /\ Len(typedText) > 0
    /\ Len(lineResults) > 0
    /\ howlTime > currentTime

C17_EmptyTimelineIsSafe ==
    [][ (Len(lyrics) = 0 /\ Mounted /\ status' = "playing")
        => /\ ~fault'
           /\ lineResults' = <<>>
           /\ currentLineIndex' = -1 ]_vars

\* C18: the effects of one event read the store as the steps before them
\* left it: when a tick finishes the session, the end-of-session check has
\* seen the line that the line tracking of the same tick made active, so that
\* line has a judgment, and the total offered to the high-score store is the
\* sum over the judgments the session ends with.
C18_NoStaleReads ==
    [][ (last'.op = "tick" /\ status = "playing" /\ status' = "finished")
        => /\ alreadySubmitted(lineResults', currentLineIndex')
           /\ last'.saved.totalScore = totalScoreOf(lineResults') ]_vars

\* C19: after handlePlayAgain, and after a song change (handleBackToSearch,
\* then setSong), the session holds its initial values: status idle,
\* currentLineIndex -1, typedText empty, isLineCompleted false, score 0,
\* combo 0, maxCombo 0 and no judgment.
C19_ReplayIsFresh ==
    [][ last'.op \in {"playAgain", "backToSearch", "setSong"}
        => /\ status' = InitialWorld.status
           /\ currentLineIndex' = InitialWorld.currentLineIndex
           /\ typedText' = InitialWorld.typedText
           /\ isLineCompleted' = InitialWorld.isLineCompleted
           /\ score' = InitialWorld.score
           /\ combo' = InitialWorld.combo
           /\ maxCombo' = InitialWorld.maxCombo
           /\ lineResults' = InitialWorld.lineResults ]_vars

C21_OffsetClamped ==
    [][ /\ lyricsOffset' >= -2000
        /\ lyricsOffset' <= 2000
        /\ (last'.op = "setLyricsOffset" =>
               LET offset == last'.arg[1]
               IN lyricsOffset' = IF offset < -2000 THEN -2000
                                  ELSE IF offset > 2000 THEN 2000
                                  ELSE offset)
        /\ (last'.op = "resetGame" => lyricsOffset' = 0) ]_vars

\* C21 witness: setLyricsOffset was called with an integer above the range
\* and the store holds the upper end of the range.
C21_Witness ==
    /\ last.op = "setLyricsOffset"
    /\ last.arg[1] > 2000
    /\ lyricsOffset = 2000

\* C22: the comboAfter of a judgment is comboBefore + 1 when the accuracy is
\* at least 0.95 and the timing verdict is perfect, and 0 in every other
\* case; submitLine makes it the combo of the session.
C22_ComboRule ==
    (call.fn = "calculateLineScore" /\ Returned) =>
        LET result == returned[1]
            accuracy == calculateCharacterAccuracy(call.typed, call.expected)
            verdict == calculateTimingResult(call.typedTimeMs, call.expectedTimeMs,
                                             DIFFICULTY_SETTINGS[call.difficulty])
        IN /\ result.characterAccuracy = accuracy
           /\ result.timingResult = verdict
           /\ result.combo = IF 100 * accuracy.num >= 95 * accuracy.den
                                /\ verdict = "perfect"
                             THEN call.combo + 1
                             ELSE 0
           /\ submitLine(World, result).combo = result.combo

\* C22 witness: a judgment with accuracy 1 and the verdict too_late, made
\* with a positive combo, came back with comboAfter 0.
C22_Witness ==
    /\ call.fn = "calculateLineScore"
    /\ Returned
    /\ call.combo > 0
    /\ returned[1].characterAccuracy = One
    /\ returned[1].timingResult = "too_late"
    /\ returned[1].combo = 0

\* C23: on each of the three profiles calculateTimingResult gives every
\* integer diff = typedTimeMs - expectedTimeMs the verdict of the one region
\* it lies in, the regions following each other without gap or overlap:
\* too_early below -goodWindow, early from -goodWindow to below
\* -perfectWindow, perfect from -perfectWindow to perfectWindow, late from
\* above perfectWindow to goodWindow, too_late above goodWindow.
C23_VerdictRegions ==
    (call.fn = "calculateTimingResult" /\ Returned) =>
        LET diff == call.typedTimeMs - call.expectedTimeMs
            perfectWindowMs == DIFFICULTY_SETTINGS[call.difficulty].perfectWindow
            goodWindowMs == DIFFICULTY_SETTINGS[call.difficulty].goodWindow
        IN /\ perfectWindowMs < goodWindowMs
           /\ returned[1] \in {"too_early", "early", "perfect", "late", "too_late"}
           /\ returned[1] = "too_early" <=> diff < -goodWindowMs
           /\ returned[1] = "early" <=> (-goodWindowMs <= diff /\ diff < -perfectWindowMs)
           /\ returned[1] = "perfect" <=> (-perfectWindowMs <= diff /\ diff <= perfectWindowMs)
           /\ returned[1] = "late" <=> (perfectWindowMs < diff /\ diff <= goodWindowMs)
           /\ returned[1] = "too_late" <=> goodWindowMs < diff

\* C23 witness: on the hard profile a judged time exactly goodWindow before
\* the start of the line came back as early.
C23_Witness ==
    /\ call.fn = "calculateTimingResult"
    /\ Returned
    /\ call.difficulty = "hard"
    /\ call.typedTimeMs - call.expectedTimeMs = -DIFFICULTY_SETTINGS.hard.goodWindow
    /\ returned[1] = "early"

\* C24: on a timeline sorted by start time getCurrentLineIndex returns the
\* largest index whose line has started at the time asked (its start time is
\* not after it), and -1 when no line has; a time equal to the start of a
\* line selects that line.
C24_LineAt ==
    (call.fn = "getCurrentLineIndex" /\ Returned) =>
        LET lines == call.lines
            started == {i \in 0..(Len(lines) - 1) :
                           lines[i + 1].time <= call.currentTimeMs}
        IN /\ \A i \in 1..(Len(lines) - 1) : lines[i].time <= lines[i + 1].time
           /\ started = {} => returned[1] = -1
           /\ started # {} =>
                 /\ returned[1] \in started
                 /\ \A i \in started : i <= returned[1]

\* C24 witness: the time asked is the start of a line that follows an
\* earlier line, and that line is returned.
C24_Witness ==
    /\ call.fn = "getCurrentLineIndex"
    /\ Returned
    /\ returned[1] >= 1
    /\ call.lines[returned[1] + 1].time = call.currentTimeMs
    /\ call.lines[returned[1]].time < call.currentTimeMs

\* C25: on a parsed timeline the index returned for a time is not larger
\* than the index returned for any later time.
C25_LineAtMonotonic ==
    (call.fn = "getCurrentLineIndex" /\ Returned) =>
        \A t2 \in TimeQueries :
            call.currentTimeMs < t2 =>
                returned[1] <= getCurrentLineIndex(call.lines, t2)

\* C25 witness: a line was returned for a time before the end of the
\* timeline, and a later line starts after it.
C25_Witness ==
    /\ call.fn = "getCurrentLineIndex"
    /\ Returned
    /\ returned[1] = 0
    /\ Len(call.lines) = MaxLines
    /\ call.lines[1].time < call.lines[2].time
    /\ call.lines[2].time < call.lines[3].time

\* C26: calculateCharacterAccuracy returns a defined number between 0 and 1
\* for every typed and expected text (the division has a positive
\* denominator); it is 1 for two empty texts and 0 for an empty typed text
\* against a non-empty expected text.
C26_AccuracyInRange ==
    (call.fn = "calculateCharacterAccuracy" /\ Returned) =>
        /\ returned[1].den > 0
        /\ 0 <= returned[1].num
        /\ returned[1].num <= returned[1].den
        /\ (Len(call.typed) = 0 /\ Len(call.expected) = 0) =>
              returned[1].num = returned[1].den
        /\ (Len(call.typed) = 0 /\ Len(call.expected) > 0) =>
              returned[1].num = 0

\* C26 witness: an empty typed text against an expected text of punctuation
\* only, which normalizes to the empty text, came back with accuracy 0.
C26_Witness ==
    /\ call.fn = "calculateCharacterAccuracy"
    /\ Returned
    /\ Len(call.typed) = 0
    /\ call.expected = <<",">>
    /\ returned[1].num = 0
    /\ returned[1].den > 0

\* C27: calculateCharacterAccuracy of a non-empty text against itself is 1,
\* also when the text normalizes to the empty text.
C27_AccuracyOfSelf ==
    (/\ call.fn = "calculateCharacterAccuracy"
     /\ Returned
     /\ call.typed = call.expected
     /\ Len(call.typed) > 0) =>
        /\ returned[1].den > 0
        /\ returned[1].num = returned[1].den

\* C27 witness: a text of a space and a punctuation mark against itself came
\* back with accuracy 1.
C27_Witness ==
    /\ call.fn = "calculateCharacterAccuracy"
    /\ Returned
    /\ call.typed = <<" ", ",">>
    /\ call.expected = <<" ", ",">>
    /\ returned[1] = One

\* C28: on the medium profile a judgment with accuracy 1, a judged time
\* within 300 ms of the start of the line and comboBefore 0 has the verdict
\* perfect, timingScore 1.0, score 1000 and comboAfter 1. On every profile
\* the score is the integer nearest to
\* 1000 * (0.6 * accuracy + 0.3 * timingScore + 0.1 * min(comboBonus, 2))
\*      * baseScoreMultiplier,
\* with comboBonus = 1 + comboBefore * (comboMultiplier - 1) * 0.1, and it is
\* not negative.  (timingScore in hundredths, comboBonus in thousandths,
\* baseScoreMultiplier in tenths: value = weighted / scale.)
C28_LineScore ==
    (call.fn = "calculateLineScore" /\ Returned) =>
        LET result == returned[1]
            settings == DIFFICULTY_SETTINGS[call.difficulty]
            accuracy == calculateCharacterAccuracy(call.typed, call.expected)
            timingScore == getTimingMultiplier(result.timingResult, settings)
            comboBonus == 1000 + call.combo * settings.comboMultiplier
            weighted == (6000 * accuracy.num
                         + 30 * timingScore * accuracy.den
                         + Min(comboBonus, 2000) * accuracy.den)
                        * settings.baseScoreMultiplier
            scale == 100 * accuracy.den
        IN /\ result.timingScore = timingScore
           /\ result.score >= 0
           /\ 2 * scale * result.score <= 2 * weighted + scale
           /\ 2 * weighted + scale < 2 * scale * (result.score + 1)
           /\ (/\ call.difficulty = "medium"
               /\ accuracy.num = accuracy.den
               /\ Abs(call.typedTimeMs - call.expectedTimeMs) <= 300
               /\ call.combo = 0) =>
                  /\ result.timingResult = "perfect"
                  /\ result.timingScore = 100
                  /\ result.score = 1000
                  /\ result.combo = 1

\* C28 witness: the line with target 10000 ms, typed exactly and judged at
\* 10250 ms on the medium profile with comboBefore 0, scored 1000.
C28_Witness ==
    /\ call.fn = "calculateLineScore"
    /\ Returned
    /\ call.difficulty = "medium"
    /\ call.typed = call.expected
    /\ call.expectedTimeMs = 10000
    /\ call.typedTimeMs = 10250
    /\ call.combo = 0
    /\ returned[1].score = 1000
    /\ returned[1].combo = 1

\* C29: the timeline parseLRC returns holds one line per timed entry, sorted
\* ascending by start time; every line but the last ends at the start of the
\* next one (a zero duration when the two start together) and the last line
\* ends 5000 ms after its start.
C29_ParsedTimeline ==
    (call.fn = "parseLRC" /\ Returned) =>
        LET lines == returned[1]
        IN /\ Len(lines) = Len(call.entries)
           /\ \A i \in 1..(Len(lines) - 1) :
                 /\ lines[i].time <= lines[i + 1].time
                 /\ lines[i].endTime = lines[i + 1].time
           /\ Len(lines) > 0 =>
                 lines[Len(lines)].endTime = lines[Len(lines)].time + 5000

\* C29 witness: a file whose timestamps come out of order and with one of
\* them repeated was parsed into a timeline with a line of zero duration.
C29_Witness ==
    /\ call.fn = "parseLRC"
    /\ Returned
    /\ Len(call.entries) = MaxLines
    /\ call.entries[1].time > call.entries[2].time
    /\ \E i \in 1..(Len(returned[1]) - 1) :
          returned[1][i].endTime = returned[1][i].time

\* C30: in every state of a session the score is the sum of the scores of
\* the judgments, the combo is the comboAfter of the most recent judgment and
\* maxCombo is the largest comboAfter of all judgments (both 0 when there is
\* no judgment), so maxCombo >= combo >= 0.
C30_ScoreAndCombo ==
    /\ score = totalScoreOf(lineResults)
    /\ combo = IF Len(lineResults) = 0 THEN 0
               ELSE lineResults[Len(lineResults)].combo
    /\ \A k \in 1..Len(lineResults) : lineResults[k].combo <= maxCombo
    /\ IF Len(lineResults) = 0 THEN maxCombo = 0
       ELSE \E k \in 1..Len(lineResults) : lineResults[k].combo = maxCombo
    /\ maxCombo >= combo
    /\ combo >= 0

\* C30 witness: a session holds a judgment that raised the combo and a later
\* one that reset it.
C30_Witness ==
    /\ status \in {"playing", "paused", "finished"}
    /\ Len(lineResults) >= 2
    /\ score > 0
    /\ combo = 0
    /\ maxCombo = 1

\* C31: while a session is playing and the audio time does not go back, the
\* active line index never decreases, also over a change of the lyrics
\* offset made during play, and a line that already has a judgment never
\* becomes the active line again.
C31_ActiveLineNeverReturns ==
    [][ (status = "playing" /\ status' = "playing" /\ currentTime' >= currentTime)
        => /\ currentLineIndex' >= currentLineIndex
           /\ (currentLineIndex' # currentLineIndex
                  => ~alreadySubmitted(lineResults', currentLineIndex')) ]_vars

\* C32: a playing session that is never paused or quit, whose audio keeps
\* advancing until it ends, eventually has status finished, also when the
\* audio is shorter than the end time of the last line.
C32_EventuallyFinished == (status = "playing") ~> (status = "finished")

\* C33: when a session becomes finished, the total score that was handed to
\* the high-score check and written in the saved record equals the score of
\* the session after the transition, the sum of all its judgments, the ones
\* appended in the same tick included.
C33_SavedTotalIsScore ==
    [][ (status # "finished" /\ status' = "finished")
        => /\ last'.saved.outcome # "none"
           /\ last'.saved.totalScore = score'
           /\ score' = totalScoreOf(lineResults') ]_vars

\* C34: every judgment that a text change appends, that is every judgment
\* of the early-completion path of handleTyping, has accuracy exactly 1.
C34_EarlyCompletionIsAccurate ==
    [][ (last'.op = "handleTyping" /\ Len(lineResults') > Len(lineResults))
        => lineResults'[Len(lineResults')].characterAccuracy = One ]_vars

\* C35: in assist policy the re-aligned buffer of a text change is a fixed
\* point of the re-alignment, is never longer than the expected text, and
\* holds the expected character at every position where the expected
\* character is punctuation.
C35_AlignIsIdempotent ==
    [][ (last'.op = "handleTyping" /\ typingMode = "assist" /\ status = "playing"
         /\ HasActiveLine /\ ~isLineCompleted)
        => LET expected == Line(currentLineIndex).text
               aligned == assistAlign(last'.arg, expected)
           IN /\ lastTypedTextRef' = aligned
              /\ assistAlign(aligned, expected) = aligned
              /\ Len(aligned) <= Len(expected)
              /\ \A i \in 1..Len(aligned) :
                    expected[i] \in AssistPunctuation => aligned[i] = expected[i] ]_vars

\* C35 witness: a text change in assist policy whose text was longer than the
\* expected text and did not hold the expected punctuation; the buffer was
\* cut and filled.
C35_Witness ==
    /\ last.op = "handleTyping"
    /\ typingMode = "assist"
    /\ Len(last.arg) > Len(lyrics[1].text)
    /\ lastTypedTextRef # last.arg
    /\ \E i \in 1..Len(lastTypedTextRef) :
          /\ lyrics[1].text[i] \in AssistPunctuation
          /\ last.arg[i] # lyrics[1].text[i]
          /\ lastTypedTextRef[i] = lyrics[1].text[i]

\* C36: the statistics of the judgments of a session count every judgment
\* in exactly one of perfect, good and missed: the three counts add up to
\* the number of judgments.
C36_StatsPartition ==
    LET stats == calculateGameStats(lineResults)
    IN stats.perfectLines + stats.goodLines + stats.missedLines = Len(lineResults)

\* the records of a group with one score in a stored list
KeptCount(stored, songKey, s) ==
    Len(SelectSeq(stored, LAMBDA h : h.songKey = songKey /\ h.score = s))

\* the stored records of every group are the best five of the records written
\* for it: of the records with score s as many are kept as fit after the
\* better ones
HoldsBestFive(hs) ==
    \A songKey \in SongKeys :
        /\ Len(SelectSeq(hs.stored, LAMBDA h : h.songKey = songKey))
              <= MAX_SCORES_PER_SONG
        /\ \A s \in SavedScores :
              LET better == SumOver(hs.saved,
                                    {songKey} \X {t \in SavedScores : t > s})
              IN KeptCount(hs.stored, songKey, s)
                    = Min(hs.saved[<<songKey, s>>],
                          Max(0, MAX_SCORES_PER_SONG - better))

InFlight(videoId) ==
    {d \in 1..Len(ytdlp.downloads) :
        ytdlp.downloads[d].videoId = videoId /\ ytdlp.downloads[d].state = "running"}

\* C38: at most one performDownload per video is in flight; every caller that
\* has to wait for a video waits for that download and gets its outcome; and
\* once the caller that started a download has continued after it settled,
\* the lock and the progress entry of the video are gone, so that they exist
\* exactly while a download of the video is in flight
C38_OneDownloadPerVideo ==
    /\ \A videoId \in VideoIds : Cardinality(InFlight(videoId)) <= 1
    /\ \A c \in 1..Len(ytdlp.callers) :
          LET caller == ytdlp.callers[c]
          IN caller.promise # 0
                => /\ ytdlp.downloads[caller.promise].videoId = caller.videoId
                   /\ ytdlp.downloads[caller.promise].state = "running"
                         => InFlight(caller.videoId) = {caller.promise}
                   /\ caller.outcome = "path"
                         => ytdlp.downloads[caller.promise].state = "resolved"
                   /\ caller.outcome = "error"
                         => ytdlp.downloads[caller.promise].state = "rejected"
    /\ StartersDone(ytdlp)
          => /\ ytdlp.downloadLocks
                   = {<<videoId, d>> \in VideoIds \X (1..Len(ytdlp.downloads)) :
                         d \in InFlight(videoId)}
             /\ ytdlp.downloadProgress = {videoId \in VideoIds : InFlight(videoId) # {}}

\* three callers shared one download that failed and got its error, and a
\* later call has started a second download of the same video
C38_Witness ==
    \E videoId \in VideoIds :
        /\ Len(ytdlp.downloads) = 2
        /\ ytdlp.downloads[1] = [videoId |-> videoId, state |-> "rejected"]
        /\ ytdlp.downloads[2] = [videoId |-> videoId, state |-> "running"]
        /\ Cardinality({c \in 1..Len(ytdlp.callers) :
                           /\ ytdlp.callers[c].promise = 1
                           /\ ytdlp.callers[c].outcome = "error"}) = 3
        /\ ytdlp.downloadLocks = {<<videoId, 2>>}

====
